---- MODULE Spec2Model ----
(***************************************************************************)
(* Model of the tool-calling orchestration engine of the NHC log viewer's  *)
(* AI assistant (src/components/AIAssistant.tsx): the conversation state   *)
(* machine, the Rate Governor, the hosted turn loop and the tool engine.   *)
(*                                                                         *)
(* Handlers are modelled as functions from a store (a record holding the   *)
(* component's state) to the store after the handler's synchronous part;   *)
(* each action installs the store its handler returns.  A handler reads    *)
(* React state through the closure of the render it was created in, which  *)
(* is passed to it as a snapshot.                                          *)
(***************************************************************************)
EXTENDS Integers, Sequences, FiniteSets, TLC

VARIABLES
    messages,                  \* useState<Message[]>
    isLoading,                 \* useState(false): the busy flag
    modelTier,                 \* useState('gemini-2.5-flash')
    userApiKey,                \* useState('')
    envApiKey,                 \* import.meta.env.VITE_API_KEY, fixed at build time
    conversationStateRef,      \* useRef<ConversationState>('IDLE')
    lastPromptRef,             \* useRef<string | null>(null)
    apiRequestTimestampsRef,   \* useRef<Record<string, number[]>>({})
    cloudPrivacyWarningShown,  \* useRef(false)
    runs,                      \* the runCloudAI invocations suspended at an await
    timers,                    \* the setTimeout callbacks of handleQuickAction not yet run
    sent,                      \* per hosted model, the times of the latest requests sent to it
    chromeAiSession,           \* useRef<any>(null): the on-device session in use, 0 for null
    sessions,                  \* the on-device sessions created so far: "live" or "destroyed"
    windowAi,                  \* whether the browser provides window.ai.languageModel
    mounted,                   \* whether the component is mounted
    showWebLlmConsent,         \* useState(false)
    pendingPrompt,             \* useState<string | null>(null)
    mlcEngine,                 \* useRef<any>(null): the in-browser runtime, 0 for null
    corpus,                    \* the allLogs prop handed to handleToolCall (tool engine specs)
    givenCall,                 \* the call last handed to handleToolCall (tool engine specs)
    returned,                  \* what handleToolCall returned for it (tool engine specs)
    lastEvent,                 \* what the last handler or continuation did, in order
    now                        \* Date.now()

vars == <<messages, isLoading, modelTier, userApiKey, envApiKey, conversationStateRef,
          lastPromptRef, apiRequestTimestampsRef, cloudPrivacyWarningShown, runs, timers,
          sent, chromeAiSession, sessions, windowAi, mounted, showWebLlmConsent,
          pendingPrompt, mlcEngine, corpus, givenCall, returned, lastEvent, now>>

(***************************************************************************)
(* Bounds of the model.                                                    *)
(***************************************************************************)
\* No prompt is submitted once the message list holds more than this many messages
\* (Spec, SpecQuick) ...
MaxMessages == 3
\* ... or this many (SpecGov) ...
MaxChat == 9
\* ... or this many: the user resets the chat first (SpecSat, SpecKey).
MaxSatChat == 1
\* The clock is not advanced beyond this many half-minutes (SpecGov) ...
MaxHalfMinutes == 3
\* ... or this many minutes (SpecSat).
MaxMinutes == 1
\* The provider answers freely in the first VarSteps steps of a turn.
VarSteps == 2
\* At most this many quick-action timers are pending at once.
MaxTimers == 1
\* The generated log corpora hold at most this many entries (tool engine specs).
MaxLogs == 3
\* The generated corpora of SpecSpikes spread over at most this many minutes.
MaxBuckets == 6

(***************************************************************************)
(* Text.  A text is a sequence of one-character strings; a fixed message   *)
(* of the program is a one-element sequence holding the whole message.     *)
(***************************************************************************)
UpperCase == <<"A", "B", "C", "D", "E", "F", "T", "Z">>
LowerCase == <<"a", "b", "c", "d", "e", "f", "t", "z">>

\* String.prototype.toLowerCase, one character
LowerChar(c) ==
    IF \E i \in DOMAIN UpperCase : UpperCase[i] = c
    THEN LowerCase[CHOOSE i \in DOMAIN UpperCase : UpperCase[i] = c]
    ELSE c

toLowerCase(t) == [i \in DOMAIN t |-> LowerChar(t[i])]

IsSpace(c) == c = " "

RECURSIVE TrimStart(_)
TrimStart(t) == IF t # <<>> /\ IsSpace(Head(t)) THEN TrimStart(Tail(t)) ELSE t

RECURSIVE TrimEnd(_)
TrimEnd(t) ==
    IF t # <<>> /\ IsSpace(t[Len(t)]) THEN TrimEnd(SubSeq(t, 1, Len(t) - 1)) ELSE t

\* String.prototype.trim
trim(t) == TrimEnd(TrimStart(t))

\* String.prototype.includes
includes(t, kw) ==
    \E i \in 0..(Len(t) - Len(kw)) : SubSeq(t, i + 1, i + Len(kw)) = kw

\* String.prototype.startsWith
startsWith(t, p) == Len(t) >= Len(p) /\ SubSeq(t, 1, Len(p)) = p

ToolCallPrefix == <<"T", "o", "o", "l", " ", "C", "a", "l", "l", ":">>
ToolResponsePrefix ==
    <<"T", "o", "o", "l", " ", "R", "e", "s", "p", "o", "n", "s", "e", ":">>

Digit(n) == <<"0", "1", "2", "3", "4", "5", "6", "7", "8", "9">>[n + 1]
Pad2(n) == <<Digit(n \div 10), Digit(n % 10)>>
Pad3(n) == <<Digit(n \div 100), Digit((n \div 10) % 10), Digit(n % 10)>>

\* Date.prototype.toISOString for the times of the first day of the epoch
toISOString(ms) ==
    <<"1", "9", "7", "0", "-", "0", "1", "-", "0", "1", "T">>
        \o Pad2((ms \div 3600000) % 24) \o <<":">>
        \o Pad2((ms \div 60000) % 60) \o <<":">>
        \o Pad2((ms \div 1000) % 60) \o <<".">>
        \o Pad3(ms % 1000) \o <<"Z">>

(***************************************************************************)
(* Messages.                                                               *)
(***************************************************************************)
Msg(role, text, isError, isWarning) ==
    [role |-> role, text |-> text, isError |-> isError, isWarning |-> isWarning]

WelcomeText == <<"Hello! I'm your AI log assistant. How can I help you analyze these logs?">>
WelcomeMessage == Msg("model", WelcomeText, FALSE, FALSE)

NoKeyText == <<"API key is not configured. Please set one in the settings">>
PrivacyText == <<"You are using a cloud-based AI model.">>
AllBusyText == <<"All AI models are currently busy due to rate limits.">>
NoResponseText == <<"I'm sorry, I couldn't generate a response.">>
KeySavedText == <<"API key saved. Retrying your last request...">>
RateLimitText == <<"Rate limit exceeded. Please try again in about N seconds.">>
GenericErrorText == <<"An error occurred: ">>
NoticeText(requested, effective) == <<"**Notice:** model is busy", requested, effective>>

(***************************************************************************)
(* Tool registry and availability policy.                                  *)
(***************************************************************************)
\* mutant: the same tools are offered in every state
getAvailableToolsIgnoresState(state) ==
    <<"search_logs", "find_log_patterns", "update_filters", "scroll_to_log",
      "suggest_solution">>

getAvailableTools(state) ==
    IF state = "ANALYZING"
    THEN <<"trace_error_origin", "suggest_solution", "scroll_to_log", "search_logs">>
    ELSE <<"search_logs", "find_log_patterns", "update_filters", "scroll_to_log",
           "suggest_solution">>

(***************************************************************************)
(* Hosted tiers and their requests-per-minute ceilings.                    *)
(***************************************************************************)
Pro == "gemini-2.5-pro"
Flash == "gemini-2.5-flash"
FlashLite == "gemini-flash-lite-latest"

RpmPro == 2
RpmFlash == 10
RpmFlashLite == 15

MODEL_CONFIG == (Pro :> RpmPro) @@ (Flash :> RpmFlash) @@ (FlashLite :> RpmFlashLite)

tiers == <<Pro, Flash, FlashLite>>
HostedTiers == {tiers[i] : i \in DOMAIN tiers}

indexOf(seq, x) ==
    IF \E i \in DOMAIN seq : seq[i] = x
    THEN CHOOSE i \in DOMAIN seq : seq[i] = x /\ \A j \in 1..(i - 1) : seq[j] # x
    ELSE 0

OneMinute == 60000

(***************************************************************************)
(* Tool execution engine (handleToolCall).  A log entry is a record        *)
(* [id, timestamp, level, message]; the arguments of a call are a record   *)
(* holding the properties the provider supplied.                           *)
(***************************************************************************)
\* the destructuring default: the property, or the default when it is absent
Arg(args, f, default) == IF f \in DOMAIN args THEN args[f] ELSE default

\* Array.prototype.slice(start, end) for start >= 0 and any integer end
slice(seq, start, end) ==
    LET e == IF end < 0 THEN (IF Len(seq) + end < 0 THEN 0 ELSE Len(seq) + end)
             ELSE (IF end > Len(seq) THEN Len(seq) ELSE end)
    IN  IF start >= e THEN <<>> ELSE SubSeq(seq, start + 1, e)

\* Array.prototype.slice(-n): the last n elements
lastN(seq, n) == IF Len(seq) <= n THEN seq ELSE SubSeq(seq, Len(seq) - n + 1, Len(seq))

\* the reduce building levelCounts: level -> number of entries at that level
levelCounts(logs) ==
    [lv \in {logs[i].level : i \in DOMAIN logs} |->
        Cardinality({i \in DOMAIN logs : logs[i].level = lv})]

textToSearch(log) == toLowerCase(log.message \o <<" ">> \o toISOString(log.timestamp))

\* mutant: every mode matches as OR does
search_matchesAnyKeyword(log, lowerCaseKeywords, match_mode) ==
    \E k \in DOMAIN lowerCaseKeywords : includes(textToSearch(log), lowerCaseKeywords[k])

search_matches(log, lowerCaseKeywords, match_mode) ==
    IF match_mode = "AND"
    THEN \A k \in DOMAIN lowerCaseKeywords : includes(textToSearch(log), lowerCaseKeywords[k])
    ELSE \E k \in DOMAIN lowerCaseKeywords : includes(textToSearch(log), lowerCaseKeywords[k])

DefaultLimit == 100
MaxExamples == 3

\* the results array of search_logs: the matching entries, cut at the limit
searchResults(args, allLogs) ==
    LET keywords == Arg(args, "keywords", <<>>)
        match_mode == Arg(args, "match_mode", "OR")
        limit == Arg(args, "limit", DefaultLimit)
        lowerCaseKeywords == [k \in DOMAIN keywords |-> toLowerCase(keywords[k])]
    IN  slice(SelectSeq(allLogs,
                        LAMBDA log : search_matches(log, lowerCaseKeywords, match_mode)),
              0, limit)

\* mutant: the limit is not applied
search_logsUnbounded(args, allLogs) ==
    LET keywords == Arg(args, "keywords", <<>>)
        match_mode == Arg(args, "match_mode", "OR")
        lowerCaseKeywords == [k \in DOMAIN keywords |-> toLowerCase(keywords[k])]
        results == SelectSeq(allLogs,
                             LAMBDA log : search_matches(log, lowerCaseKeywords, match_mode))
    IN  IF Len(keywords) = 0 THEN [summary |-> [text |-> "No keywords provided."]]
        ELSE IF Len(results) = 0
        THEN [summary |-> [text |-> "Found 0 logs matching the criteria."]]
        ELSE [summary |-> [text |-> "Found logs", count |-> Len(results),
                           levels |-> levelCounts(results)],
              example_log_ids |-> [i \in 1..Len(slice(results, 0, MaxExamples)) |->
                                      results[i].id]]

search_logs(args, allLogs) ==
    LET keywords == Arg(args, "keywords", <<>>)
        match_mode == Arg(args, "match_mode", "OR")
        limit == Arg(args, "limit", DefaultLimit)
        lowerCaseKeywords == [k \in DOMAIN keywords |-> toLowerCase(keywords[k])]
        results == slice(SelectSeq(allLogs,
                            LAMBDA log : search_matches(log, lowerCaseKeywords, match_mode)),
                         0, limit)
    IN  IF Len(keywords) = 0 THEN [summary |-> [text |-> "No keywords provided."]]
        ELSE IF Len(results) = 0
        THEN [summary |-> [text |-> "Found 0 logs matching the criteria."]]
        ELSE [summary |-> [text |-> "Found logs", count |-> Len(results),
                           levels |-> levelCounts(results)],
              example_log_ids |-> [i \in 1..Len(slice(results, 0, MaxExamples)) |->
                                      results[i].id]]

IsDigit(c) == c \in {"0", "1", "2", "3", "4", "5", "6", "7", "8", "9"}

\* message.replace(/\d+/g, 'N'); afterDigit tells whether the character before t was
\* a digit, whose run has its N already
RECURSIVE replaceDigitRuns(_, _)
replaceDigitRuns(t, afterDigit) ==
    IF t = <<>> THEN <<>>
    ELSE IF IsDigit(Head(t))
    THEN (IF afterDigit THEN <<>> ELSE <<"N">>) \o replaceDigitRuns(Tail(t), TRUE)
    ELSE <<Head(t)>> \o replaceDigitRuns(Tail(t), FALSE)

\* the logs find_log_patterns looks at: those of the last time_window_minutes before
\* the last entry, or all of them when no window (or a window of 0) is given
targetLogs(args, allLogs) ==
    LET time_window_minutes == Arg(args, "time_window_minutes", 0)
    IN  IF time_window_minutes # 0
        THEN SelectSeq(allLogs, LAMBDA log :
                 LET logTime == log.timestamp
                     endTime == allLogs[Len(allLogs)].timestamp
                     startTime == endTime - time_window_minutes * 60 * 1000
                 IN  logTime >= startTime /\ logTime <= endTime)
        ELSE allLogs

\* property names that the accumulator {} of the reduce inherits from Object.prototype:
\* acc[name] is a function there before any entry has been counted
ValueOf == <<"v", "a", "l", "u", "e", "O", "f">>
ObjectPrototype ==
    {ValueOf, <<"t", "o", "S", "t", "r", "i", "n", "g">>,
     <<"c", "o", "n", "s", "t", "r", "u", "c", "t", "o", "r">>}

\* what count++ leaves in the count of a value that had none (no count is negative),
\* and the id of a value that has none
NaN == -1
undefined == 0

\* the reduce building counts: per generic message, in the order of first occurrence,
\* the number of entries and the id of the first.  acc[genericMessage] || {count: 0, id}
\* takes the inherited function for an inherited name: that function becomes the value
\* of the entry, its count is NaN after count++ and it has no id
RECURSIVE countPatterns(_, _)
countPatterns(logs, acc) ==
    IF logs = <<>> THEN acc
    ELSE LET genericMessage == replaceDigitRuns(Head(logs).message, FALSE)
             hit == {k \in DOMAIN acc : acc[k].message_pattern = genericMessage}
         IN  countPatterns(Tail(logs),
                 IF hit # {}
                 THEN [acc EXCEPT ![CHOOSE k \in hit : TRUE].count =
                                      IF @ = NaN THEN NaN ELSE @ + 1]
                 ELSE IF genericMessage \in ObjectPrototype
                 THEN Append(acc, [message_pattern |-> genericMessage, count |-> NaN,
                                   example_log_id |-> undefined])
                 ELSE Append(acc, [message_pattern |-> genericMessage, count |-> 1,
                                   example_log_id |-> Head(logs).id]))

\* Array.prototype.sort((a, b) => b[1].count - a[1].count), which is stable; a
\* difference that is NaN counts as 0 (the corpora with an inherited name hold one
\* pattern, so that no order depends on it)
RECURSIVE sortByCount(_)
sortByCount(entries) ==
    IF entries = <<>> THEN <<>>
    ELSE LET e == Head(entries)
             sorted == sortByCount(Tail(entries))
             before == Cardinality({k \in DOMAIN sorted :
                                       /\ sorted[k].count # NaN
                                       /\ e.count # NaN
                                       /\ sorted[k].count > e.count})
         IN  SubSeq(sorted, 1, before) \o <<e>> \o SubSeq(sorted, before + 1, Len(sorted))

TopPatterns == 5

repeating_error(logs) ==
    LET counts == countPatterns(
                      SelectSeq(logs, LAMBDA l : l.level = "ERROR" \/ l.level = "CRITICAL"),
                      <<>>)
        top == slice(sortByCount(counts), 0, TopPatterns)
    IN  IF Len(top) = 0 THEN [summary |-> [text |-> "No repeating error patterns found."]]
        ELSE [summary |-> [text |-> "Found repeating error patterns", count |-> Len(top),
                           most |-> top[1].count],
              top_patterns |-> top]

bucketSize == 60000

\* the keys of buckets in the order of Object.entries: integer keys ascend
RECURSIVE ascending(_)
ascending(keys) ==
    IF keys = {} THEN <<>>
    ELSE LET least == CHOOSE k \in keys : \A j \in keys : k <= j
         IN  <<least>> \o ascending(keys \ {least})

RECURSIVE sum(_)
sum(seq) == IF seq = <<>> THEN 0 ELSE Head(seq) + sum(Tail(seq))

\* ten, nine, four times two and three times one entry: the average is 10 / 3 and the
\* standard deviation 10 / 3
NineMinutes == <<10, 9, 2, 2, 2, 2, 1, 1, 1>>

\* the counts, of those the corpora give, for which avg + 2 * stdDev comes out in
\* double precision below its exact value: for NineMinutes avg is
\* 3.3333333333333335, stdDev 3.3333333333333326 and their sum 9.999999999999998
RoundedBelow == {NineMinutes}

\* count > avg + 2 * stdDev, as the doubles of the code decide it.  With n counts of
\* sum total, avg = total / n and stdDev * stdDev = squares / (n * n * n), where
\* squares is the sum of (n * x - total) * (n * x - total) over the counts x.  The
\* doubles decide as the exact values do, except for a count that lies on
\* avg + 2 * stdDev exactly: there the rounding of avg and stdDev decides
exceeds(count, counts) ==
    LET n == Len(counts)
        total == sum(counts)
        squares == sum([k \in DOMAIN counts |-> (n * counts[k] - total) * (n * counts[k] - total)])
        above == n * (n * count - total) * (n * count - total)
    IN  /\ n * count > total
        /\ \/ above > 4 * squares
           \/ above = 4 * squares /\ counts \in RoundedBelow

frequency_spike(logs) ==
    LET bucketOf(log) == log.timestamp \div bucketSize
        keys == ascending({bucketOf(logs[i]) : i \in DOMAIN logs})
        counts == [k \in DOMAIN keys |->
                      Cardinality({i \in DOMAIN logs : bucketOf(logs[i]) = keys[k]})]
        spiking == SelectSeq([k \in DOMAIN keys |-> k], LAMBDA k : exceeds(counts[k], counts))
        spikes == [j \in DOMAIN spiking |->
                      [timestamp |-> toISOString(keys[spiking[j]] * bucketSize),
                       count |-> counts[spiking[j]]]]
    IN  IF Len(counts) < 2 THEN [summary |-> [text |-> "Not enough data to detect spikes."]]
        ELSE IF Len(spikes) = 0
        THEN [summary |-> [text |-> "No significant spikes in log frequency detected."]]
        ELSE [summary |-> [text |-> "Detected spike(s) in log activity",
                           count |-> Len(spikes),
                           largest |-> CHOOSE c \in {spikes[j].count : j \in DOMAIN spikes} :
                                          \A j \in DOMAIN spikes : spikes[j].count <= c],
              spikes |-> spikes]

find_log_patterns(args, allLogs) ==
    LET pattern_type == Arg(args, "pattern_type", "")
    IN  IF pattern_type = "repeating_error" THEN repeating_error(targetLogs(args, allLogs))
        ELSE IF pattern_type = "frequency_spike"
        THEN frequency_spike(targetLogs(args, allLogs))
        ELSE [summary |-> [text |-> "Pattern type not implemented."]]

DefaultTraceWindow == 60
TraceExamples == 5

\* mutant: the examples are the first entries of the window, not the last
trace_error_originFirstExamples(args, allLogs) ==
    LET error_log_id == args["error_log_id"]
        trace_window_seconds == Arg(args, "trace_window_seconds", DefaultTraceWindow)
        found == {i \in DOMAIN allLogs : allLogs[i].id = error_log_id}
    IN  IF found = {} THEN [summary |-> [text |-> "Log ID not found.", id |-> error_log_id]]
        ELSE LET errorLog == allLogs[CHOOSE i \in found : \A j \in found : i <= j]
                 endTime == errorLog.timestamp
                 startTime == endTime - trace_window_seconds * 1000
                 traceLogs == SelectSeq(allLogs, LAMBDA l :
                                  l.timestamp >= startTime /\ l.timestamp <= endTime)
                 tail == slice(traceLogs, 0, TraceExamples)
             IN  [summary |-> [text |-> "Found logs before log", count |-> Len(traceLogs),
                               levels |-> levelCounts(traceLogs)],
                  example_log_ids |-> [i \in DOMAIN tail |-> tail[i].id]]

trace_error_origin(args, allLogs) ==
    LET error_log_id == args["error_log_id"]
        trace_window_seconds == Arg(args, "trace_window_seconds", DefaultTraceWindow)
        found == {i \in DOMAIN allLogs : allLogs[i].id = error_log_id}
    IN  IF found = {} THEN [summary |-> [text |-> "Log ID not found.", id |-> error_log_id]]
        ELSE LET errorLog == allLogs[CHOOSE i \in found : \A j \in found : i <= j]
                 endTime == errorLog.timestamp
                 startTime == endTime - trace_window_seconds * 1000
                 traceLogs == SelectSeq(allLogs, LAMBDA l :
                                  l.timestamp >= startTime /\ l.timestamp <= endTime)
                 tail == lastN(traceLogs, TraceExamples)
             IN  [summary |-> [text |-> "Found logs before log", count |-> Len(traceLogs),
                               levels |-> levelCounts(traceLogs)],
                  example_log_ids |-> [i \in DOMAIN tail |-> tail[i].id]]

\* the synchronous cases of handleToolCall
handleToolCall(toolName, args, allLogs) ==
    CASE toolName = "update_filters" ->
            [success |-> TRUE, summary |-> [text |-> "Created a new tab with the specified filters."]]
      [] toolName = "scroll_to_log" ->
            [success |-> TRUE, summary |-> [text |-> "Scrolled to log ID."]]
      [] toolName = "search_logs" -> search_logs(args, allLogs)
      [] toolName = "find_log_patterns" -> find_log_patterns(args, allLogs)
      [] toolName = "trace_error_origin" -> trace_error_origin(args, allLogs)
      [] OTHER -> [error |-> "Tool not found.", name |-> toolName]

\* the tools whose case reads a property of args before anything else
ReadsArgs ==
    {"update_filters", "scroll_to_log", "search_logs", "find_log_patterns",
     "trace_error_origin", "suggest_solution"}

\* handleToolCall raises a TypeError: the call carries no args and the tool's case
\* reads a property of args (suggest_solution reads it outside its try block)
toolThrows(toolCall) == "args" \notin DOMAIN toolCall /\ toolCall.name \in ReadsArgs

\* the args of a call, the empty record when the call carries none
argsOf(toolCall) == IF "args" \in DOMAIN toolCall THEN toolCall.args ELSE <<>>

\* toolResult?.example_log_ids?.length > 0
hasExamples(toolResult) ==
    "example_log_ids" \in DOMAIN toolResult /\ Len(toolResult.example_log_ids) > 0

(***************************************************************************)
(* The store, and the handlers as functions on it.                         *)
(***************************************************************************)
\* lastPromptRef.current = null (no prompt is ever the empty text)
null == <<>>

Cur ==
    [messages |-> messages, isLoading |-> isLoading, modelTier |-> modelTier,
     userApiKey |-> userApiKey, envApiKey |-> envApiKey,
     conversationStateRef |-> conversationStateRef, lastPromptRef |-> lastPromptRef,
     apiRequestTimestampsRef |-> apiRequestTimestampsRef,
     cloudPrivacyWarningShown |-> cloudPrivacyWarningShown,
     runs |-> runs, timers |-> timers, sent |-> sent,
     chromeAiSession |-> chromeAiSession, sessions |-> sessions, windowAi |-> windowAi,
     mounted |-> mounted, showWebLlmConsent |-> showWebLlmConsent,
     pendingPrompt |-> pendingPrompt, mlcEngine |-> mlcEngine,
     ev |-> <<>>]

\* the store a handler leaves becomes the state of the component
Install(store) ==
    \E s \in {store} :
        /\ messages' = s.messages
        /\ isLoading' = s.isLoading
        /\ modelTier' = s.modelTier
        /\ userApiKey' = s.userApiKey
        /\ envApiKey' = s.envApiKey
        /\ conversationStateRef' = s.conversationStateRef
        /\ lastPromptRef' = s.lastPromptRef
        /\ apiRequestTimestampsRef' = s.apiRequestTimestampsRef
        /\ cloudPrivacyWarningShown' = s.cloudPrivacyWarningShown
        /\ runs' = s.runs
        /\ timers' = s.timers
        /\ sent' = s.sent
        /\ chromeAiSession' = s.chromeAiSession
        /\ sessions' = s.sessions
        /\ windowAi' = s.windowAi
        /\ mounted' = s.mounted
        /\ showWebLlmConsent' = s.showWebLlmConsent
        /\ pendingPrompt' = s.pendingPrompt
        /\ mlcEngine' = s.mlcEngine
        /\ lastEvent' = s.ev
        /\ UNCHANGED <<corpus, givenCall, returned>>

\* the state a handler reads through the closure of the render that created it
Snapshot ==
    [isLoading |-> isLoading, messages |-> messages, userApiKey |-> userApiKey,
     modelTier |-> modelTier]

log(s, event) == [s EXCEPT !.ev = Append(@, event)]

\* mutant: the new message is put before the last one
addMessageBeforeLast(s, role, text, isError, isWarning) ==
    [s EXCEPT !.messages =
        IF Len(@) > 1
        THEN SubSeq(@, 1, Len(@) - 1) \o <<Msg(role, text, isError, isWarning), @[Len(@)]>>
        ELSE Append(@, Msg(role, text, isError, isWarning))]

addMessage(s, role, text, isError, isWarning) ==
    [s EXCEPT !.messages = Append(@, Msg(role, text, isError, isWarning))]

setIsLoading(s, b) == [s EXCEPT !.isLoading = b]

setConversationState(s, st) == [s EXCEPT !.conversationStateRef = st]

RemoveAt(seq, i) == SubSeq(seq, 1, i - 1) \o SubSeq(seq, i + 1, Len(seq))

\* ai.models.generateContent: the request leaves for the provider
generateContent(s, model, t) ==
    [s EXCEPT !.sent[model] =
                  lastN(Append(SelectSeq(@, LAMBDA ts : ts > t - OneMinute), t),
                        MODEL_CONFIG[model] + 1)]

(***************************************************************************)
(* runCloudAI: the hosted turn loop.                                       *)
(***************************************************************************)
MAX_TURNS == 10

SystemPrompt == <<"You are an expert AI assistant embedded in a log analysis tool.">>

TextEntry(role, text) == [role |-> role, kind |-> "text", text |-> text]
CallEntry(call) == [role |-> "model", kind |-> "functionCall", call |-> call]
ResponseEntry(name, toolResult) ==
    [role |-> "tool", kind |-> "functionResponse", name |-> name, result |-> toolResult]

\* messages.slice(1).reduce(...): the provider-facing history of the earlier messages
RECURSIVE historyOf(_)
historyOf(ms) ==
    IF ms = <<>> THEN <<>>
    ELSE LET m == Head(ms)
             skip == \/ m.isError \/ m.isWarning
                     \/ (m.role = "model" /\ startsWith(m.text, ToolCallPrefix))
                     \/ (m.role = "model" /\ startsWith(m.text, ToolResponsePrefix))
         IN  (IF skip THEN <<>> ELSE <<TextEntry(m.role, m.text)>>) \o historyOf(Tail(ms))

NoCall == [name |-> "", args |-> <<>>]

\* mutant: the loop condition admits one more iteration
loopHeadOneMore(s, r, t) ==
    IF r.turn <= MAX_TURNS + 1
    THEN LET offered == getAvailableTools(s.conversationStateRef)
             s1 == log(s, [e |-> "request", model |-> r.model, turn |-> r.turn, apiKey |-> r.apiKey,
                           state |-> s.conversationStateRef, tools |-> offered])
         IN  [st |-> generateContent(s1, r.model, t), alive |-> TRUE,
              run |-> [r EXCEPT !.pc = "infer", !.tools = offered, !.call = NoCall]]
    ELSE [st |-> setIsLoading(log(s, [e |-> "exhausted", turn |-> r.turn,
                                      history |-> r.history]), FALSE),
          alive |-> FALSE, run |-> r]

\* mutant: a loop that runs out of steps fabricates a final message
loopHeadFabricates(s, r, t) ==
    IF r.turn <= MAX_TURNS
    THEN LET offered == getAvailableTools(s.conversationStateRef)
             s1 == log(s, [e |-> "request", model |-> r.model, turn |-> r.turn, apiKey |-> r.apiKey,
                           state |-> s.conversationStateRef, tools |-> offered])
         IN  [st |-> generateContent(s1, r.model, t), alive |-> TRUE,
              run |-> [r EXCEPT !.pc = "infer", !.tools = offered, !.call = NoCall]]
    ELSE [st |-> setIsLoading(
                     addMessage(log(s, [e |-> "exhausted", turn |-> r.turn,
                                        history |-> r.history]),
                                "model", NoResponseText, FALSE, FALSE), FALSE),
          alive |-> FALSE, run |-> r]

\* the head of the for loop: the next inference request, or the end of the loop
loopHead(s, r, t) ==
    IF r.turn <= MAX_TURNS
    THEN LET offered == getAvailableTools(s.conversationStateRef)
             s1 == log(s, [e |-> "request", model |-> r.model, turn |-> r.turn, apiKey |-> r.apiKey,
                           state |-> s.conversationStateRef, tools |-> offered])
         IN  [st |-> generateContent(s1, r.model, t), alive |-> TRUE,
              run |-> [r EXCEPT !.pc = "infer", !.tools = offered, !.call = NoCall]]
    ELSE [st |-> setIsLoading(log(s, [e |-> "exhausted", turn |-> r.turn,
                                      history |-> r.history]), FALSE),
          alive |-> FALSE, run |-> r]

\* the run of a new invocation joins the suspended ones; the run at position i
\* is replaced by its continuation, or leaves when its invocation returned
place(res, i) ==
    IF i = 0
    THEN (IF res.alive THEN [res.st EXCEPT !.runs = Append(@, res.run)] ELSE res.st)
    ELSE (IF res.alive THEN [res.st EXCEPT !.runs[i] = res.run]
          ELSE [res.st EXCEPT !.runs = RemoveAt(@, i)])

\* mutant: every way out of the loop resets the conversation state
endedResetsState(s) ==
    [st |-> setConversationState(s, "IDLE"), alive |-> FALSE, run |-> NoCall]

\* the invocation returned: its run leaves
ended(s) == [st |-> s, alive |-> FALSE, run |-> NoCall]

\* mutant: the abort for a missing credential does not keep the prompt
runCloudAIForgetsPrompt(s, snap, prompt, effectiveModel, t) ==
    LET apiKey == IF snap.userApiKey # <<>> THEN snap.userApiKey ELSE s.envApiKey
    IN  IF apiKey = <<>>
        THEN setIsLoading(
                 addMessage(log(s, [e |-> "nokey", prompt |-> prompt]),
                            "model", NoKeyText, TRUE, FALSE),
                 FALSE)
        ELSE LET s1 == IF ~s.cloudPrivacyWarningShown
                       THEN [addMessage(s, "model", PrivacyText, FALSE, TRUE)
                                EXCEPT !.cloudPrivacyWarningShown = TRUE]
                       ELSE s
                 history == <<TextEntry("system", SystemPrompt)>>
                                \o historyOf(Tail(snap.messages))
                                \o <<TextEntry("user", prompt)>>
                 r == [prompt |-> prompt, model |-> effectiveModel, apiKey |-> apiKey,
                       history |-> history, turn |-> 1, pc |-> "infer",
                       tools |-> <<>>, call |-> NoCall]
             IN  place(loopHead(s1, r, t), 0)

\* mutant: the history is built from all the messages, the first included
runCloudAIKeepsFirst(s, snap, prompt, effectiveModel, t) ==
    LET apiKey == IF snap.userApiKey # <<>> THEN snap.userApiKey ELSE s.envApiKey
    IN  IF apiKey = <<>>
        THEN setIsLoading(
                 addMessage(log([s EXCEPT !.lastPromptRef = prompt],
                                [e |-> "nokey", prompt |-> prompt]),
                            "model", NoKeyText, TRUE, FALSE),
                 FALSE)
        ELSE LET s1 == IF ~s.cloudPrivacyWarningShown
                       THEN [addMessage(s, "model", PrivacyText, FALSE, TRUE)
                                EXCEPT !.cloudPrivacyWarningShown = TRUE]
                       ELSE s
                 history == <<TextEntry("system", SystemPrompt)>>
                                \o historyOf(snap.messages)
                                \o <<TextEntry("user", prompt)>>
                 r == [prompt |-> prompt, model |-> effectiveModel, apiKey |-> apiKey,
                       history |-> history, turn |-> 1, pc |-> "infer",
                       tools |-> <<>>, call |-> NoCall]
             IN  place(loopHead(s1, r, t), 0)

\* mutant: the history is built from the message list as it is now, which already
\* holds the prompt of this submission
runCloudAIReadsFreshMessages(s, snap, prompt, effectiveModel, t) ==
    LET apiKey == IF snap.userApiKey # <<>> THEN snap.userApiKey ELSE s.envApiKey
    IN  IF apiKey = <<>>
        THEN setIsLoading(
                 addMessage(log([s EXCEPT !.lastPromptRef = prompt],
                                [e |-> "nokey", prompt |-> prompt]),
                            "model", NoKeyText, TRUE, FALSE),
                 FALSE)
        ELSE LET s1 == IF ~s.cloudPrivacyWarningShown
                       THEN [addMessage(s, "model", PrivacyText, FALSE, TRUE)
                                EXCEPT !.cloudPrivacyWarningShown = TRUE]
                       ELSE s
                 history == <<TextEntry("system", SystemPrompt)>>
                                \o historyOf(Tail(s.messages))
                                \o <<TextEntry("user", prompt)>>
                 r == [prompt |-> prompt, model |-> effectiveModel, apiKey |-> apiKey,
                       history |-> history, turn |-> 1, pc |-> "infer",
                       tools |-> <<>>, call |-> NoCall]
             IN  place(loopHead(s1, r, t), 0)

\* runCloudAI up to its first await
runCloudAI(s, snap, prompt, effectiveModel, t) ==
    LET apiKey == IF snap.userApiKey # <<>> THEN snap.userApiKey ELSE s.envApiKey
    IN  IF apiKey = <<>>
        THEN setIsLoading(
                 addMessage(log([s EXCEPT !.lastPromptRef = prompt],
                                [e |-> "nokey", prompt |-> prompt]),
                            "model", NoKeyText, TRUE, FALSE),
                 FALSE)
        ELSE LET s1 == IF ~s.cloudPrivacyWarningShown
                       THEN [addMessage(s, "model", PrivacyText, FALSE, TRUE)
                                EXCEPT !.cloudPrivacyWarningShown = TRUE]
                       ELSE s
                 history == <<TextEntry("system", SystemPrompt)>>
                                \o historyOf(Tail(snap.messages))
                                \o <<TextEntry("user", prompt)>>
                 r == [prompt |-> prompt, model |-> effectiveModel, apiKey |-> apiKey,
                       history |-> history, turn |-> 1, pc |-> "infer",
                       tools |-> <<>>, call |-> NoCall]
             IN  place(loopHead(s1, r, t), 0)

\* mutant: a search_logs result without examples returns the state to IDLE
afterToolResetsOnMiss(s, r, toolCall, toolResult, t) ==
    LET s1 == log(s, [e |-> "tool", name |-> toolCall.name, result |-> toolResult,
                      turn |-> r.turn])
        s2 == IF toolCall.name = "search_logs"
              THEN (IF hasExamples(toolResult)
                    THEN log(setConversationState(s1, "ANALYZING"), [e |-> "analyzing"])
                    ELSE setConversationState(s1, "IDLE"))
              ELSE s1
        r2 == [r EXCEPT !.history = Append(@, ResponseEntry(toolCall.name, toolResult)),
                        !.turn = @ + 1]
    IN  loopHead(s2, r2, t)

\* mutant: a tool result with an error field aborts the turn
afterToolAbortsOnError(s, r, toolCall, toolResult, t) ==
    LET s1 == log(s, [e |-> "tool", name |-> toolCall.name, result |-> toolResult,
                      turn |-> r.turn])
        s2 == IF toolCall.name = "search_logs" /\ hasExamples(toolResult)
              THEN log(setConversationState(s1, "ANALYZING"), [e |-> "analyzing"])
              ELSE s1
        r2 == [r EXCEPT !.history = Append(@, ResponseEntry(toolCall.name, toolResult)),
                        !.turn = @ + 1]
    IN  IF "error" \in DOMAIN toolResult
        THEN ended(setIsLoading(addMessage(s2, "model", GenericErrorText, TRUE, FALSE),
                                FALSE))
        ELSE loopHead(s2, r2, t)

\* mutant: the tool result is shown in the message list
afterToolShowsResult(s, r, toolCall, toolResult, t) ==
    LET s1 == addMessage(log(s, [e |-> "tool", name |-> toolCall.name,
                                 result |-> toolResult, turn |-> r.turn]),
                         "model", ToolResponsePrefix, FALSE, FALSE)
        s2 == IF toolCall.name = "search_logs" /\ hasExamples(toolResult)
              THEN log(setConversationState(s1, "ANALYZING"), [e |-> "analyzing"])
              ELSE s1
        r2 == [r EXCEPT !.history = Append(@, ResponseEntry(toolCall.name, toolResult)),
                        !.turn = @ + 1]
    IN  loopHead(s2, r2, t)

\* the statements after the tool result is known, to the head of the next iteration
afterTool(s, r, toolCall, toolResult, t) ==
    LET s1 == log(s, [e |-> "tool", name |-> toolCall.name, result |-> toolResult,
                      turn |-> r.turn])
        s2 == IF toolCall.name = "search_logs" /\ hasExamples(toolResult)
              THEN log(setConversationState(s1, "ANALYZING"), [e |-> "analyzing"])
              ELSE s1
        r2 == [r EXCEPT !.history = Append(@, ResponseEntry(toolCall.name, toolResult)),
                        !.turn = @ + 1]
    IN  loopHead(s2, r2, t)

\* the loaded log corpus (the allLogs prop)
allLogs ==
    <<[id |-> 1, timestamp |-> 1000, level |-> "INFO", message |-> <<"o", "k">>],
      [id |-> 2, timestamp |-> 2000, level |-> "ERROR", message |-> <<"A", "b", " ", "7">>],
      [id |-> 3, timestamp |-> 63000, level |-> "ERROR", message |-> <<"a", "b", " ", "8">>]>>

CouldNotSolveText == <<"Could not generate a solution.">>
SolveErrorText == <<"An error occurred while generating a solution: ">>

\* mutant: every provider error gets the generic message
errorMessageAlwaysGeneric(resp) == GenericErrorText

\* the message of the catch clause: the wait-time message when the error carries a
\* retry delay, the generic message otherwise
errorMessage(resp) == IF resp.retry THEN RateLimitText ELSE GenericErrorText

\* mutant: the last proposed call is the one executed
firstCallIsLast(functionCalls) == functionCalls[Len(functionCalls)]

\* const toolCall = functionCalls[0]
firstCall(functionCalls) == functionCalls[1]

\* the continuation of runCloudAI when generateContent settles
cloudResponse(s, i, resp, t) ==
    LET r == s.runs[i]
    IN  IF resp.kind = "error"
        THEN place(ended(setIsLoading(
                 addMessage(log(s, [e |-> "error", turn |-> r.turn,
                                    history |-> r.history, retry |-> resp.retry]),
                            "model", errorMessage(resp), TRUE, FALSE),
                 FALSE)), i)
        ELSE IF Len(resp.functionCalls) > 0
        THEN LET toolCall == firstCall(resp.functionCalls)
                 r1 == [r EXCEPT !.history = Append(@, CallEntry(toolCall))]
                 s0 == log(s, [e |-> "proposed", calls |-> resp.functionCalls,
                               turn |-> r.turn])
             IN  IF toolThrows(toolCall)
                 THEN place(ended(log(s0, [e |-> "threw", name |-> toolCall.name])), i)
                 ELSE IF toolCall.name = "suggest_solution"
                 THEN place([st |-> generateContent(
                                        log(s0, [e |-> "nested", model |-> Flash,
                                                 turn |-> r.turn]), Flash, t),
                             alive |-> TRUE,
                             run |-> [r1 EXCEPT !.pc = "suggest", !.call = toolCall]], i)
                 ELSE place(afterTool(s0, r1, toolCall,
                                      handleToolCall(toolCall.name, argsOf(toolCall),
                                                     allLogs),
                                      t), i)
        ELSE LET text == IF resp.text # <<>> THEN resp.text ELSE NoResponseText
             IN  place(ended(setIsLoading(
                     setConversationState(
                         addMessage(log(s, [e |-> "final", text |-> text, turn |-> r.turn,
                                            history |-> r.history]),
                                    "model", text, FALSE, FALSE),
                         "IDLE"),
                     FALSE)), i)

\* the continuation of runCloudAI when the request made by suggest_solution settles
suggestResponse(s, i, resp, t) ==
    LET r == s.runs[i]
        toolResult ==
            IF resp.kind = "error" THEN [solution |-> SolveErrorText]
            ELSE [solution |-> IF resp.text # <<>> THEN resp.text ELSE CouldNotSolveText]
    IN  place(afterTool(s, r, r.call, toolResult, t), i)

(***************************************************************************)
(* runChromeBuiltInAI: the on-device backend.                              *)
(***************************************************************************)
ChromeBuiltIn == "chrome-built-in"
ChromeUnavailableText == <<"Chrome built-in AI is not available.">>
ChromeErrorText == <<"An error occurred with the Chrome AI: ">>

\* mutant: the on-device model is offered the tools of the IDLE state
chromeRunOffersTools(prompt, pc, session) ==
    [prompt |-> prompt, model |-> ChromeBuiltIn, apiKey |-> <<>>, history |-> <<>>,
     turn |-> 1, pc |-> pc, tools |-> getAvailableTools("IDLE"), call |-> NoCall,
     session |-> session]

\* the invocation of runChromeBuiltInAI for a prompt, suspended at the await pc
chromeRun(prompt, pc, session) ==
    [prompt |-> prompt, model |-> ChromeBuiltIn, apiKey |-> <<>>, history |-> <<>>,
     turn |-> 1, pc |-> pc, tools |-> <<>>, call |-> NoCall, session |-> session]

\* chromeAiSession.current.prompt(prompt), up to its await
chromePrompt(s, prompt) ==
    [st |-> log(s, [e |-> "devicePrompt", session |-> s.chromeAiSession]), alive |-> TRUE,
     run |-> chromeRun(prompt, "prompt", s.chromeAiSession)]

\* the catch and finally clauses
chromeFailed(s) ==
    LET s1 == addMessage(log(s, [e |-> "deviceError"]), "model", ChromeErrorText, TRUE, FALSE)
        s2 == IF s1.chromeAiSession # 0
              THEN [s1 EXCEPT !.sessions[s1.chromeAiSession] = "destroyed",
                              !.chromeAiSession = 0]
              ELSE s1
    IN  ended(setIsLoading(s2, FALSE))

\* runChromeBuiltInAI up to its first await
runChromeBuiltInAI(s, prompt) ==
    IF ~s.windowAi
    THEN setIsLoading(addMessage(log(s, [e |-> "deviceMissing"]), "model",
                                 ChromeUnavailableText, TRUE, FALSE), FALSE)
    ELSE IF s.chromeAiSession = 0
    THEN place([st |-> log(s, [e |-> "create"]), alive |-> TRUE,
                run |-> chromeRun(prompt, "create", 0)], 0)
    ELSE place(chromePrompt(s, prompt), 0)

\* the continuation when window.ai.languageModel.create settles
chromeCreated(s, i, ok) ==
    IF ok
    THEN LET id == Len(s.sessions) + 1
             s1 == [s EXCEPT !.sessions = Append(@, "live"), !.chromeAiSession = id]
         IN  place(chromePrompt(log(s1, [e |-> "created", session |-> id]),
                                s.runs[i].prompt), i)
    ELSE place(chromeFailed(s), i)

\* the continuation when the session's prompt settles
chromePrompted(s, i, ok, response) ==
    IF ok
    THEN place(ended(setIsLoading(
                   addMessage(log(s, [e |-> "deviceAnswer", session |-> s.runs[i].session]),
                              "model", response, FALSE, FALSE), FALSE)), i)
    ELSE place(chromeFailed(s), i)

\* the cleanup of the mount effect: the session in use is destroyed
unmount(s) ==
    LET s1 == log([s EXCEPT !.mounted = FALSE], [e |-> "unmount"])
    IN  IF s1.chromeAiSession # 0
        THEN [s1 EXCEPT !.sessions[s1.chromeAiSession] = "destroyed", !.chromeAiSession = 0]
        ELSE s1

(***************************************************************************)
(* The in-browser runtime.  The bodies of runLocalAI, loadWebLlm and        *)
(* handleConsent hold no statement, nothing calls loadWebLlm or             *)
(* handleConsent, and nothing assigns mlcEngine.current, showWebLlmConsent  *)
(* or pendingPrompt.                                                        *)
(***************************************************************************)
WebLlm == "web-llm"

runLocalAI(s, prompt) == log(s, [e |-> "local", prompt |-> prompt])

(***************************************************************************)
(* Rate Governor (getEffectiveModelTierAndRun) and handleSubmit.           *)
(***************************************************************************)
\* mutant: nothing is ever dropped from a window
pruneKeepsAll(stamps, t) == stamps

\* mutant: an entry exactly one minute old is kept
pruneInclusive(stamps, t) ==
    [m \in DOMAIN stamps |-> SelectSeq(stamps[m], LAMBDA ts : ts >= t - OneMinute)]

\* Clean up old timestamps
prune(stamps, t) ==
    [m \in DOMAIN stamps |-> SelectSeq(stamps[m], LAMBDA ts : ts > t - OneMinute)]

getRequestCount(stamps, model) == Len(stamps[model])

\* mutant: a tier at its ceiling is still admitted
RECURSIVE scanTiersAtCeiling(_, _)
scanTiersAtCeiling(stamps, i) ==
    IF i > Len(tiers) THEN 0
    ELSE IF getRequestCount(stamps, tiers[i]) <= MODEL_CONFIG[tiers[i]] THEN i
    ELSE scanTiersAtCeiling(stamps, i + 1)

\* mutant: when every tier is busy the last one is used all the same
RECURSIVE scanTiersFallsToLast(_, _)
scanTiersFallsToLast(stamps, i) ==
    IF i > Len(tiers) THEN Len(tiers)
    ELSE IF getRequestCount(stamps, tiers[i]) < MODEL_CONFIG[tiers[i]] THEN i
    ELSE scanTiersFallsToLast(stamps, i + 1)

\* mutant: the tier after a busy one is taken without a look at its window
scanTiersTrustsNext(stamps, i) ==
    IF i > Len(tiers) THEN 0
    ELSE IF getRequestCount(stamps, tiers[i]) < MODEL_CONFIG[tiers[i]] THEN i
    ELSE IF i < Len(tiers) THEN i + 1
    ELSE 0

\* the for loop over tiers from index i: the index of the admitted tier, 0 when
\* the last tier is busy too
RECURSIVE scanTiers(_, _)
scanTiers(stamps, i) ==
    IF i > Len(tiers) THEN 0
    ELSE IF getRequestCount(stamps, tiers[i]) < MODEL_CONFIG[tiers[i]] THEN i
    ELSE scanTiers(stamps, i + 1)

\* the Rate Governor's console line for every tier the loop examined
RECURSIVE logChecks(_, _, _, _, _)
logChecks(s, stamps, i, last, t) ==
    IF i > last THEN s
    ELSE logChecks(log(s, [e |-> "check", tier |-> tiers[i], window |-> stamps[tiers[i]],
                           limit |-> MODEL_CONFIG[tiers[i]], at |-> t]),
                   stamps, i + 1, last, t)

\* mutant: the admission is recorded only when a credential is configured
getEffectiveModelTierAndRunChecksKeyFirst(s, snap, prompt, t) ==
    IF snap.modelTier = ChromeBuiltIn THEN runChromeBuiltInAI(s, prompt) ELSE
    IF snap.modelTier = WebLlm
    THEN (IF s.mlcEngine # 0 THEN runLocalAI(s, prompt)
          ELSE log(s, [e |-> "noRuntime", prompt |-> prompt])) ELSE
    LET stamps == prune(s.apiRequestTimestampsRef, t)
        currentTierIndex == indexOf(tiers, snap.modelTier)
        admitted == scanTiers(stamps, currentTierIndex)
        s1 == log([s EXCEPT !.apiRequestTimestampsRef = stamps],
                  [e |-> "prune", before |-> s.apiRequestTimestampsRef, after |-> stamps])
    IN  IF admitted = 0
        THEN setIsLoading(
                 addMessage(log(logChecks(s1, stamps, currentTierIndex, Len(tiers), t),
                                [e |-> "reject", requested |-> snap.modelTier]),
                            "model", AllBusyText, TRUE, FALSE),
                 FALSE)
        ELSE LET effectiveModel == tiers[admitted]
                 s2 == logChecks(s1, stamps, currentTierIndex, admitted, t)
                 s3 == IF effectiveModel # snap.modelTier
                       THEN addMessage(s2, "model",
                                       NoticeText(snap.modelTier, effectiveModel),
                                       FALSE, TRUE)
                       ELSE s2
                 s4 == log([s3 EXCEPT !.apiRequestTimestampsRef[effectiveModel] =
                                          IF snap.userApiKey # <<>> \/ s.envApiKey # <<>>
                                          THEN Append(@, t) ELSE @],
                           [e |-> "admit", tier |-> effectiveModel,
                            requested |-> snap.modelTier, at |-> t])
             IN  runCloudAI(s4, snap, prompt, effectiveModel, t)

\* the Rate Governor: the tier that serves the prompt, and the call of its backend
getEffectiveModelTierAndRun(s, snap, prompt, t) ==
    IF snap.modelTier = ChromeBuiltIn THEN runChromeBuiltInAI(s, prompt) ELSE
    IF snap.modelTier = WebLlm
    THEN (IF s.mlcEngine # 0 THEN runLocalAI(s, prompt)
          ELSE log(s, [e |-> "noRuntime", prompt |-> prompt])) ELSE
    LET stamps == prune(s.apiRequestTimestampsRef, t)
        currentTierIndex == indexOf(tiers, snap.modelTier)
        admitted == scanTiers(stamps, currentTierIndex)
        s1 == log([s EXCEPT !.apiRequestTimestampsRef = stamps],
                  [e |-> "prune", before |-> s.apiRequestTimestampsRef, after |-> stamps])
    IN  IF admitted = 0
        THEN setIsLoading(
                 addMessage(log(logChecks(s1, stamps, currentTierIndex, Len(tiers), t),
                                [e |-> "reject", requested |-> snap.modelTier]),
                            "model", AllBusyText, TRUE, FALSE),
                 FALSE)
        ELSE LET effectiveModel == tiers[admitted]
                 s2 == logChecks(s1, stamps, currentTierIndex, admitted, t)
                 s3 == IF effectiveModel # snap.modelTier
                       THEN addMessage(s2, "model",
                                       NoticeText(snap.modelTier, effectiveModel),
                                       FALSE, TRUE)
                       ELSE s2
                 s4 == log([s3 EXCEPT !.apiRequestTimestampsRef[effectiveModel] =
                                          Append(@, t)],
                           [e |-> "admit", tier |-> effectiveModel,
                            requested |-> snap.modelTier, at |-> t])
             IN  runCloudAI(s4, snap, prompt, effectiveModel, t)

\* overridePrompt is the empty text when the caller passes none
handleSubmit(s, snap, input, overridePrompt, t) ==
    LET trimmedInput == IF overridePrompt # <<>> THEN overridePrompt ELSE trim(input)
    IN  IF trimmedInput = <<>> \/ snap.isLoading
        THEN log(s, [e |-> "ignored"])
        ELSE getEffectiveModelTierAndRun(
                 setConversationState(
                     setIsLoading(
                         addMessage(log(s, [e |-> "submit", prompt |-> trimmedInput]),
                                    "user", trimmedInput, FALSE, FALSE),
                         TRUE),
                     "IDLE"),
                 snap, trimmedInput, t)

handleSaveSettings(s, snap, tempApiKey, t) ==
    LET newKey == trim(tempApiKey)
        s1 == log([s EXCEPT !.userApiKey = newKey], [e |-> "save", key |-> newKey])
    IN  IF newKey # <<>> /\ s.lastPromptRef # null
        THEN [handleSubmit(addMessage(s1, "model", KeySavedText, FALSE, FALSE),
                           snap, <<>>, s.lastPromptRef, t)
                 EXCEPT !.lastPromptRef = null]
        ELSE s1

(***************************************************************************)
(* The environment: what the user types, what the provider answers.        *)
(***************************************************************************)
Reply(text, functionCalls) == [kind |-> "reply", text |-> text, functionCalls |-> functionCalls]
Failure(retry) == [kind |-> "error", retry |-> retry]

Call(name, args) == [name |-> name, args |-> args]
SearchHit == Call("search_logs", [keywords |-> << <<"a", "B">> >>])
SearchMiss == Call("search_logs", [keywords |-> << <<"q">> >>])
UpdateFilters == Call("update_filters", [log_levels |-> <<"ERROR">>])
SuggestSolution == Call("suggest_solution", [error_message |-> <<"a", "b">>])

UnknownTool == Call("delete_logs", [log_id |-> 1])
TraceMissing == Call("trace_error_origin", [error_log_id |-> 99])
\* a call without args
BareCall(name) == [name |-> name]

Answer == <<"d", "o", "n", "e">>
Prompt1 == <<"a">>
Prompt2 == <<" ", "b", " ">>
Key1 == <<"k">>
Key2 == <<" ", "k", "2">>
EnvKey == <<"e">>

\* a provider that answers freely in the first VarSteps steps of a turn and then
\* either goes on searching or gives its final answer
FreeProvider(r) ==
    IF r.turn <= VarSteps
    THEN {Reply(<<>>, <<SearchHit>>), Reply(<<>>, <<SearchMiss>>),
          Reply(Answer, <<UpdateFilters>>), Reply(<<>>, <<SuggestSolution>>),
          Reply(Answer, <<>>), Reply(<<>>, <<>>), Failure(TRUE), Failure(FALSE)}
    ELSE {Reply(<<>>, <<SearchHit>>), Reply(Answer, <<>>)}

\* a provider that gives its final answer at once
PromptProvider(r) == {Reply(Answer, <<>>)}

\* a provider that searches once more or gives its final answer
SearchingProvider(r) == {Reply(<<>>, <<SearchHit>>), Reply(Answer, <<>>)}

\* a provider whose first VarSteps answers of a turn propose calls that fail, several
\* calls at once or a call without args, and that then proposes an unknown tool or
\* gives its final answer
CarelessProvider(r) ==
    IF r.turn <= VarSteps
    THEN {Reply(<<>>, <<SearchHit, UpdateFilters>>), Reply(<<>>, <<UnknownTool, SearchHit>>),
          Reply(<<>>, <<TraceMissing>>), Reply(<<>>, <<SuggestSolution>>),
          Reply(<<>>, <<BareCall("update_filters")>>), Reply(<<>>, <<BareCall("delete_logs")>>),
          Reply(Answer, <<>>), Failure(FALSE)}
    ELSE {Reply(<<>>, <<UnknownTool>>), Reply(Answer, <<>>)}

\* a provider that asks for a filter tab, gives its final answer or fails
FilteringProvider(r) == {Reply(<<>>, <<UpdateFilters>>), Reply(Answer, <<>>), Failure(FALSE)}

\* what the named provider may answer to the pending request of run r
Responses(provider, r) ==
    CASE provider = "free" -> FreeProvider(r)
      [] provider = "prompt" -> PromptProvider(r)
      [] provider = "searching" -> SearchingProvider(r)
      [] provider = "careless" -> CarelessProvider(r)
      [] provider = "filtering" -> FilteringProvider(r)

NestedReplies == {Reply(Answer, <<>>), Failure(FALSE)}

(***************************************************************************)
(* The environment of the tool engine: the corpora loaded and the calls    *)
(* the provider proposes.  The k-th entry of a generated corpus has the id *)
(* 10 * k; its time, level and message are those of its kind.              *)
(***************************************************************************)
LogEntry(id, timestamp, level, message) ==
    [id |-> id, timestamp |-> timestamp, level |-> level, message |-> message]

\* the corpora of n entries of the given kinds, in the order of time
RECURSIVE CorporaOfLen(_, _)
CorporaOfLen(kinds, n) ==
    IF n = 0 THEN {<<>>}
    ELSE {Append(p[1], LogEntry(10 * n, p[2].timestamp, p[2].level, p[2].message)) :
             p \in {q \in CorporaOfLen(kinds, n - 1) \X kinds :
                        q[1] = <<>> \/ q[1][n - 1].timestamp <= q[2].timestamp}}

\* the corpora of at most maxLen entries
Corpora(kinds, maxLen) == UNION {CorporaOfLen(kinds, n) : n \in 0..maxLen}

\* args with the property name added when the provider gives it
With(name, given, value, args) == IF given THEN (name :> value) @@ args ELSE args

KwAb == <<"a", "B">>
KwB == <<"b">>
KwC == <<"C">>
KwZ == <<"z">>
KwQ == <<"q">>

SearchKinds ==
    {[timestamp |-> 1000, level |-> "INFO", message |-> <<"A", "b">>],
     [timestamp |-> 1000, level |-> "ERROR", message |-> <<"A", "b">>],
     [timestamp |-> 1000, level |-> "ERROR", message |-> <<"b">>],
     [timestamp |-> 1000, level |-> "INFO", message |-> <<"c">>]}

\* more entries than the default limit: all hold b, the last one holds ab too
LongCorpus ==
    [k \in 1..(DefaultLimit + 1) |->
        LogEntry(10 * k, 1000 * k, IF k % 2 = 0 THEN "INFO" ELSE "ERROR",
                 IF k <= DefaultLimit THEN <<"b">> ELSE <<"A", "b">>)]

SearchCorpora(maxLen) == Corpora(SearchKinds, maxLen) \cup {LongCorpus}

SearchCalls ==
    {Call("search_logs",
          With("limit", limit >= 0, limit,
               With("match_mode", mode # "", mode, [keywords |-> kws]))) :
        kws \in {<<>>, <<KwAb>>, <<KwB>>, <<KwC, KwB>>, <<KwAb, KwC>>, <<KwAb, KwB>>,
                 <<KwZ, KwAb>>, <<KwQ>>, <<KwQ, KwB>>},
        mode \in {"", "OR", "AND"},
        limit \in {-1, 0, 1, 2}}
    \cup {Call("search_logs", [match_mode |-> "AND"])}

PatternKinds ==
    {[timestamp |-> 1000, level |-> "ERROR", message |-> <<"d", "7">>],
     [timestamp |-> 1000, level |-> "INFO", message |-> <<"d", "7">>],
     [timestamp |-> 1000, level |-> "CRITICAL", message |-> <<"d", "1", "2">>],
     [timestamp |-> 1000, level |-> "ERROR", message |-> <<"d", "N">>],
     [timestamp |-> 1000, level |-> "CRITICAL", message |-> <<"7", "e", "8">>],
     [timestamp |-> 1000, level |-> "ERROR", message |-> <<"e">>]}

DiskNFull == <<"d", "i", "s", "k", " ", "N", " ", "f", "u", "l", "l">>
Disk7Full == <<"d", "i", "s", "k", " ", "7", " ", "f", "u", "l", "l">>

DiskCorpus ==
    <<LogEntry(10, 1000, "ERROR", DiskNFull), LogEntry(20, 2000, "ERROR", DiskNFull),
      LogEntry(30, 3000, "ERROR", DiskNFull), LogEntry(40, 4000, "ERROR", Disk7Full),
      LogEntry(50, 5000, "INFO", <<"o", "k">>)>>

\* six patterns: one seen twice, five seen once
SixPatterns ==
    <<LogEntry(10, 1000, "ERROR", <<"a">>), LogEntry(20, 2000, "CRITICAL", <<"b", "1">>),
      LogEntry(30, 3000, "ERROR", <<"c">>), LogEntry(40, 4000, "ERROR", <<"b", "2", "3">>),
      LogEntry(50, 5000, "ERROR", <<"d">>), LogEntry(60, 6000, "CRITICAL", <<"e">>),
      LogEntry(70, 7000, "ERROR", <<"f">>)>>

\* two errors whose message is the name of a method every object has
InheritedName ==
    <<LogEntry(10, 1000, "ERROR", ValueOf), LogEntry(20, 2000, "ERROR", ValueOf)>>

\* the generated corpora, their entries a minute apart, and the three above
PatternCorpora(maxLen) ==
    {[k \in DOMAIN c |-> [c[k] EXCEPT !.timestamp = k * bucketSize]] :
        c \in Corpora(PatternKinds, maxLen)}
    \cup {DiskCorpus, SixPatterns, InheritedName}

PatternCalls ==
    {Call("find_log_patterns",
          With("time_window_minutes", window >= 0, window,
               With("pattern_type", type # "", type, <<>>))) :
        type \in {"", "repeating_error", "other"}, window \in {-1, 0, 1}}

\* the corpus with counts[b] entries in minute b, a second apart
FromCounts(counts) ==
    LET before(b) == sum(SubSeq(counts, 1, b - 1))
        minuteOf(k) == CHOOSE b \in DOMAIN counts : before(b) < k /\ k <= before(b) + counts[b]
    IN  [k \in 1..sum(counts) |->
            LogEntry(10 * k, (minuteOf(k) - 1) * bucketSize + (k - before(minuteOf(k))) * 1000,
                     "INFO", <<"o", "k">>)]

\* ten minutes of one entry each and a minute of twenty
TenOnesAndTwenty == <<1, 1, 1, 1, 1, 1, 1, 1, 1, 1, 20>>
\* a minute whose count is the average plus two standard deviations exactly
OnTheThreshold == <<1, 1, 1, 1, 5>>

SpikeCorpora(maxMinutes) ==
    {FromCounts(counts) :
        counts \in UNION {[1..n -> 0..2] : n \in 0..maxMinutes}
                      \cup {TenOnesAndTwenty, OnTheThreshold, NineMinutes}}

SpikeCalls ==
    {Call("find_log_patterns",
          With("time_window_minutes", window >= 0, window, [pattern_type |-> type])) :
        type \in {"frequency_spike", "other"}, window \in {-1, 2}}

TraceKinds ==
    {[timestamp |-> t, level |-> lv, message |-> <<"o", "k">>] :
        t \in {1000, 2000, 61000, 62000}, lv \in {"INFO", "ERROR"}}

\* seven entries within a minute
SevenInAMinute ==
    [k \in 1..7 |-> LogEntry(10 * k, 1000 * k, IF k % 2 = 0 THEN "INFO" ELSE "ERROR",
                             <<"o", "k">>)]

TraceCorpora(maxLen) == Corpora(TraceKinds, maxLen) \cup {SevenInAMinute}

TraceCalls ==
    {Call("trace_error_origin",
          With("trace_window_seconds", window >= 0, window, [error_log_id |-> id])) :
        id \in {10, 20, 30, 70, 5}, window \in {-1, 0, 1, 59, 60}}

(***************************************************************************)
(* Actions.                                                                *)
(***************************************************************************)
\* the form's onSubmit, or Enter in the textarea (both disabled while loading)
FormSubmit(inputs, maxLen) ==
    /\ mounted
    /\ ~isLoading
    /\ Len(messages) <= maxLen
    /\ \E input \in inputs : Install(handleSubmit(Cur, Snapshot, input, <<>>, now))
    /\ UNCHANGED now

\* handleQuickAction: the submission is left to a timer
QuickAction(prompts) ==
    /\ mounted
    /\ ~isLoading
    /\ Len(messages) <= MaxMessages
    /\ Len(timers) < MaxTimers
    /\ \E p \in prompts :
         Install(log([Cur EXCEPT !.timers = Append(@, [prompt |-> p, snap |-> Snapshot])],
                     [e |-> "quick"]))
    /\ UNCHANGED now

\* the timer of the oldest quick action runs the handleSubmit of its render
TimerFires ==
    /\ timers # <<>>
    /\ Install(handleSubmit([Cur EXCEPT !.timers = Tail(@)], Head(timers).snap, <<>>,
                            Head(timers).prompt, now))
    /\ UNCHANGED now

\* the model select's onChange
SelectTier(choices) ==
    /\ mounted
    /\ \E tier \in choices \ {modelTier} :
         Install([Cur EXCEPT !.modelTier = tier])
    /\ UNCHANGED now

SaveSettings(keys) ==
    /\ mounted
    /\ \E k \in keys : Install(handleSaveSettings(Cur, Snapshot, k, now))
    /\ UNCHANGED now

\* the Reset Chat button: setMessages([messages[0]])
ResetChat ==
    /\ mounted
    /\ Len(messages) > 1
    /\ Install(log([Cur EXCEPT !.messages = <<messages[1]>>], [e |-> "reset"]))
    /\ UNCHANGED now

ProviderResponds(provider) ==
    /\ \E i \in DOMAIN runs :
         /\ runs[i].pc = "infer"
         /\ \E resp \in Responses(provider, runs[i]) : Install(cloudResponse(Cur, i, resp, now))
    /\ UNCHANGED now

\* the on-device model settles the pending create or prompt of a run
ChromeResponds ==
    /\ \E i \in DOMAIN runs : \E ok \in BOOLEAN :
         \/ /\ runs[i].pc = "create"
            /\ Install(chromeCreated(Cur, i, ok))
         \/ /\ runs[i].pc = "prompt"
            /\ Install(chromePrompted(Cur, i, ok, Answer))
    /\ UNCHANGED now

SuggestResponds ==
    /\ \E i \in DOMAIN runs :
         /\ runs[i].pc = "suggest"
         /\ \E resp \in NestedReplies : Install(suggestResponse(Cur, i, resp, now))
    /\ UNCHANGED now

\* the conversation surface is torn down; the timers and the suspended runs go on
Unmount ==
    /\ mounted
    /\ Install(unmount(Cur))
    /\ UNCHANGED now

\* handleToolCall is handed one of the calls, once
ToolCalled(calls) ==
    /\ givenCall.name = ""
    /\ \E c \in calls :
         /\ givenCall' = c
         /\ returned' = handleToolCall(c.name, argsOf(c), corpus)
    /\ UNCHANGED <<messages, isLoading, modelTier, userApiKey, envApiKey,
                   conversationStateRef, lastPromptRef, apiRequestTimestampsRef,
                   cloudPrivacyWarningShown, runs, timers, sent, chromeAiSession,
                   sessions, windowAi, mounted, showWebLlmConsent, pendingPrompt,
                   mlcEngine, corpus, lastEvent, now>>

\* time passes
Tick(delays, maxTime) ==
    /\ \E d \in delays :
         /\ now + d <= maxTime
         /\ now' = now + d
    /\ lastEvent' = <<>>
    /\ UNCHANGED <<messages, isLoading, modelTier, userApiKey, envApiKey,
                   conversationStateRef, lastPromptRef, apiRequestTimestampsRef,
                   cloudPrivacyWarningShown, runs, timers, sent, chromeAiSession,
                   sessions, windowAi, mounted, showWebLlmConsent, pendingPrompt,
                   mlcEngine, corpus, givenCall, returned>>

InitComponent(userKeys, envKeys) ==
    /\ messages = <<WelcomeMessage>>
    /\ isLoading = FALSE
    /\ modelTier = Flash
    /\ userApiKey \in userKeys
    /\ envApiKey \in envKeys
    /\ conversationStateRef = "IDLE"
    /\ lastPromptRef = null
    /\ apiRequestTimestampsRef = [m \in HostedTiers |-> <<>>]
    /\ cloudPrivacyWarningShown = FALSE
    /\ runs = <<>>
    /\ timers = <<>>
    /\ sent = [m \in HostedTiers |-> <<>>]
    /\ chromeAiSession = 0
    /\ sessions = <<>>
    /\ windowAi = TRUE
    /\ mounted = TRUE
    /\ showWebLlmConsent = FALSE
    /\ pendingPrompt = null
    /\ mlcEngine = 0
    /\ lastEvent = <<>>
    /\ now = 0

InitWith(userKeys, envKeys) ==
    /\ InitComponent(userKeys, envKeys)
    /\ corpus = allLogs
    /\ givenCall = NoCall
    /\ returned = <<>>

\* the component with one of the corpora loaded
InitEngine(corpora) ==
    /\ InitComponent({<<>>}, {<<>>})
    /\ corpus \in corpora
    /\ givenCall = NoCall
    /\ returned = <<>>

(***************************************************************************)
(* Spec: the hosted turn loop under a provider that answers freely.        *)
(***************************************************************************)
Init == InitWith({Key1}, {<<>>})

Next ==
    \/ FormSubmit({<<>>, Prompt1, Prompt2}, MaxMessages)
    \/ SelectTier({Pro})
    \/ ProviderResponds("free")
    \/ SuggestResponds

Spec == Init /\ [][Next]_vars

(***************************************************************************)
(* SpecGov: the Rate Governor under submissions half a minute apart.       *)
(***************************************************************************)
NextGov ==
    \/ FormSubmit({Prompt1}, MaxChat)
    \/ SelectTier({Pro})
    \/ ProviderResponds("prompt")
    \/ Tick({OneMinute \div 2, OneMinute}, MaxHalfMinutes * (OneMinute \div 2))

SpecGov == InitWith({<<>>, Key1}, {<<>>}) /\ [][NextGov]_vars

(***************************************************************************)
(* SpecSat: the Rate Governor driven to saturation of every tier.          *)
(***************************************************************************)
NextSat ==
    \/ FormSubmit({Prompt1}, MaxSatChat)
    \/ SelectTier(HostedTiers)
    \/ ResetChat
    \/ ProviderResponds("prompt")
    \/ Tick({OneMinute}, MaxMinutes * OneMinute)

SpecSat == InitWith({Key1}, {<<>>}) /\ [][NextSat]_vars

(***************************************************************************)
(* SpecNoKey: submissions while no credential is configured.               *)
(***************************************************************************)
NextNoKey ==
    \/ FormSubmit({Prompt1, Prompt2}, MaxSatChat)
    \/ SelectTier({FlashLite})
    \/ SaveSettings({<<>>, <<" ">>})
    \/ ResetChat

SpecNoKey == InitWith({<<>>}, {<<>>}) /\ [][NextNoKey]_vars

(***************************************************************************)
(* SpecQuick: quick actions, whose timers submit from an earlier render.   *)
(***************************************************************************)
NextQuick ==
    \/ FormSubmit({Prompt1}, MaxMessages)
    \/ QuickAction({Prompt2})
    \/ TimerFires
    \/ ProviderResponds("searching")

SpecQuick == InitWith({Key1}, {<<>>}) /\ [][NextQuick]_vars

(***************************************************************************)
(* SpecTools: the hosted turn loop under a provider whose tool calls fail. *)
(***************************************************************************)
NextTools ==
    \/ FormSubmit({Prompt1}, MaxMessages)
    \/ ProviderResponds("careless")
    \/ SuggestResponds

SpecTools == InitWith({Key1}, {<<>>}) /\ [][NextTools]_vars

(***************************************************************************)
(* SpecKey: a credential is saved after submissions made without one, on   *)
(* the hosted and on the on-device backend.                                *)
(***************************************************************************)
NextKey ==
    \/ FormSubmit({Prompt1, Prompt2}, MaxMessages)
    \/ SelectTier({Flash, ChromeBuiltIn})
    \/ SaveSettings({<<>>, Key1, Key2})
    \/ ProviderResponds("prompt")
    \/ ChromeResponds

SpecKey == InitWith({<<>>}, {<<>>}) /\ [][NextKey]_vars

(***************************************************************************)
(* SpecChat: the message list under submissions, answers, aborts, a saved  *)
(* credential and Reset Chat.                                              *)
(***************************************************************************)
NextChat ==
    \/ FormSubmit({Prompt1}, MaxMessages)
    \/ SaveSettings({Key1})
    \/ ResetChat
    \/ ProviderResponds("searching")

SpecChat == InitWith({<<>>}, {<<>>}) /\ [][NextChat]_vars

(***************************************************************************)
(* SpecDevice: on-device turns started from the form and from quick        *)
(* actions, and the teardown of the conversation surface.                  *)
(***************************************************************************)
NextDevice ==
    \/ FormSubmit({Prompt1}, MaxSatChat)
    \/ QuickAction({Prompt2})
    \/ TimerFires
    \/ SelectTier({ChromeBuiltIn})
    \/ ChromeResponds
    \/ Unmount

SpecDevice == InitWith({Key1}, {<<>>}) /\ [][NextDevice]_vars

(***************************************************************************)
(* SpecLocal: submissions on the hosted, the on-device and the in-browser  *)
(* tier, a minute apart.                                                   *)
(***************************************************************************)
NextLocal ==
    \/ FormSubmit({Prompt1}, MaxChat)
    \/ SelectTier({Flash, ChromeBuiltIn, WebLlm})
    \/ ProviderResponds("prompt")
    \/ ChromeResponds
    \/ Tick({OneMinute}, MaxMinutes * OneMinute)

SpecLocal == InitWith({Key1}, {<<>>}) /\ [][NextLocal]_vars

(***************************************************************************)
(* SpecSlots: submissions made without a credential, a minute apart or at  *)
(* once, until every window is full; then a credential is saved.           *)
(***************************************************************************)
NextSlots ==
    \/ FormSubmit({Prompt1}, MaxSatChat)
    \/ SelectTier({FlashLite})
    \/ SaveSettings({Key1})
    \/ ResetChat
    \/ ProviderResponds("prompt")
    \/ Tick({OneMinute}, MaxMinutes * OneMinute)

SpecSlots == InitWith({<<>>}, {<<>>}) /\ [][NextSlots]_vars

(***************************************************************************)
(* SpecLive: turns on the three backends under providers that always       *)
(* answer.  Every await of a turn (generateContent, the nested request of  *)
(* suggest_solution, create and prompt of the on-device model) settles,    *)
(* so a response that is pending is eventually delivered.                  *)
(***************************************************************************)
NextLive ==
    \/ FormSubmit({Prompt1}, MaxMessages)
    \/ SelectTier({Flash, ChromeBuiltIn, WebLlm})
    \/ ProviderResponds("filtering")
    \/ ChromeResponds

SpecLive ==
    /\ InitWith({Key1}, {<<>>})
    /\ [][NextLive]_vars
    /\ WF_vars(ProviderResponds("filtering"))
    /\ WF_vars(ChromeResponds)

(***************************************************************************)
(* SpecSearch, SpecPatterns, SpecSpikes, SpecTrace: the tool engine on its *)
(* own, search_logs, find_log_patterns and trace_error_origin applied to   *)
(* the corpora and the calls of the environment.                           *)
(***************************************************************************)
NextSearch == ToolCalled(SearchCalls)

SpecSearch == InitEngine(SearchCorpora(MaxLogs)) /\ [][NextSearch]_vars

NextPatterns == ToolCalled(PatternCalls)

SpecPatterns == InitEngine(PatternCorpora(MaxLogs)) /\ [][NextPatterns]_vars

NextSpikes == ToolCalled(SpikeCalls)

SpecSpikes == InitEngine(SpikeCorpora(MaxBuckets)) /\ [][NextSpikes]_vars

NextTrace == ToolCalled(TraceCalls)

SpecTrace == InitEngine(TraceCorpora(MaxLogs)) /\ [][NextTrace]_vars

(***************************************************************************)
(* What the last step did.                                                 *)
(***************************************************************************)
Ev(type) == {k \in DOMAIN lastEvent : lastEvent[k].e = type}
Happened(type) == Ev(type) # {}
TheEvent(type) == lastEvent[CHOOSE k \in Ev(type) : TRUE]

\* the last step executed search_logs and its result carried an example identifier
SearchFound ==
    \E k \in Ev("tool") :
        lastEvent[k].name = "search_logs" /\ hasExamples(lastEvent[k].result)

\* the positions of the results of search_logs in a provider-facing history
SearchResults(h) ==
    {k \in DOMAIN h : h[k].kind = "functionResponse" /\ h[k].name = "search_logs"}

Last(S) == CHOOSE k \in S : \A j \in S : j <= k

CountKind(h, kind) == Cardinality({k \in DOMAIN h : h[k].kind = kind})

(***************************************************************************)
(* C1. Original statement: in every turn the conversation state is         *)
(* ANALYZING exactly when the most recent search_logs result of the turn   *)
(* carries at least one example identifier, and IDLE otherwise; it is IDLE *)
(* after every final answer and after every new submission.                *)
(***************************************************************************)
C1_MostRecentSearchDecides ==
    /\ \A i \in DOMAIN runs :
          LET h == runs[i].history
          IN  conversationStateRef = "ANALYZING" <=>
                  /\ SearchResults(h) # {}
                  /\ hasExamples(h[Last(SearchResults(h))].result)
    /\ Happened("final") => conversationStateRef = "IDLE"
    /\ Happened("submit") => conversationStateRef = "IDLE"

(***************************************************************************)
(* C1. As amended: a search_logs result that carries at least one example  *)
(* identifier sets the conversation state to ANALYZING; every other tool   *)
(* result, a search_logs result without examples included, leaves the      *)
(* state as it was; every final answer and every accepted submission sets  *)
(* it to IDLE.                                                             *)
(***************************************************************************)
C1_SearchWithExamplesEntersAnalyzing ==
    [][/\ SearchFound' => conversationStateRef' = "ANALYZING"
       /\ (Happened("tool")' /\ ~SearchFound') =>
              conversationStateRef' = conversationStateRef
       /\ Happened("final")' => conversationStateRef' = "IDLE"
       /\ Happened("submit")' => conversationStateRef' = "IDLE"]_vars

\* a search_logs result without examples arrived while ANALYZING
C1_Witness ==
    /\ conversationStateRef = "ANALYZING"
    /\ \E k \in Ev("tool") :
          lastEvent[k].name = "search_logs" /\ ~hasExamples(lastEvent[k].result)

(***************************************************************************)
(* C2. The conversation state changes only from IDLE to ANALYZING, in a    *)
(* step that executed search_logs with at least one example identifier in  *)
(* its result, and to IDLE, in a step that appended a final answer or      *)
(* accepted a submission; no other tool, no provider error and no          *)
(* exhaustion of the step limit changes it.                                *)
(***************************************************************************)
C2_OnlyTransitions ==
    [][conversationStateRef' # conversationStateRef =>
          \/ /\ conversationStateRef = "IDLE"
             /\ conversationStateRef' = "ANALYZING"
             /\ SearchFound'
          \/ /\ conversationStateRef' = "IDLE"
             /\ Happened("final")' \/ Happened("submit")']_vars

\* a provider error, or the end of the step budget, left the state ANALYZING
C2_Witness ==
    /\ conversationStateRef = "ANALYZING"
    /\ Happened("error") \/ Happened("exhausted")

(***************************************************************************)
(* C3. A hosted turn makes at most 10 inference steps: the k-th request of *)
(* a turn follows k - 1 tool executions, no request is numbered above 10,  *)
(* a step that proposes no tool call ends the turn without a further       *)
(* request, and a turn in which every step proposes a tool call ends after *)
(* exactly 10 tool calls and 10 tool results.                              *)
(***************************************************************************)
C3_AtMostTenSteps ==
    /\ \A i \in DOMAIN runs :
          /\ runs[i].turn \in 1..10
          /\ CountKind(runs[i].history, "functionResponse") = runs[i].turn - 1
          /\ CountKind(runs[i].history, "functionCall") =
                 IF runs[i].pc = "suggest" THEN runs[i].turn ELSE runs[i].turn - 1
    /\ \A k \in Ev("request") : lastEvent[k].turn \in 1..10
    /\ Happened("final") => ~Happened("request")
    /\ \A k \in Ev("exhausted") :
          /\ CountKind(lastEvent[k].history, "functionCall") = 10
          /\ CountKind(lastEvent[k].history, "functionResponse") = 10
          /\ ~Happened("request")

\* a turn ran out of steps
C3_Witness == Happened("exhausted") /\ runs = <<>>

(***************************************************************************)
(* C4. The step that exhausts the 10-step limit appends no message to the  *)
(* message list and clears the busy flag, and the turn is over.            *)
(***************************************************************************)
C4_ExhaustionAddsNoMessage ==
    [][Happened("exhausted")' =>
          /\ messages' = messages
          /\ isLoading' = FALSE
          /\ Len(runs') = Len(runs) - 1]_vars

\* after exhaustion the list ends with what the submission itself appended
C4_Witness ==
    /\ Happened("exhausted")
    /\ ~isLoading
    /\ \A k \in DOMAIN messages : messages[k] # Msg("model", NoResponseText, FALSE, FALSE)
    /\ messages[Len(messages)].isWarning

(***************************************************************************)
(* The Rate Governor as the claims state it.                               *)
(***************************************************************************)
TierOrder == <<"gemini-2.5-pro", "gemini-2.5-flash", "gemini-flash-lite-latest">>
Ceiling(i) == <<2, 10, 15>>[i]
TierIndex(m) == CHOOSE i \in 1..3 : TierOrder[i] = m

\* the entries of a window that lie strictly within the 60 seconds before t
Recent(window, t) == SelectSeq(window, LAMBDA ts : t - ts < 60000)

\* the first tier from the requested one down whose recent window is below its
\* ceiling; 0 when there is none
FirstFree(stamps, requested, t) ==
    LET free == {i \in TierIndex(requested)..3 :
                    Len(Recent(stamps[TierOrder[i]], t)) < Ceiling(i)}
    IN  IF free = {} THEN 0 ELSE CHOOSE i \in free : \A j \in free : i <= j

IsNotice(m) == m.role = "model" /\ m.isWarning /\ ~m.isError /\ m.text[1] = NoticeText("", "")[1]

CountIn(seq, P(_)) == Cardinality({k \in DOMAIN seq : P(seq[k])})

(***************************************************************************)
(* C5. An accepted hosted submission for which some tier from the          *)
(* requested one down is below its ceiling (2, 10, 15) is admitted on the  *)
(* first such tier in the order pro, flash, flash-lite, never on a tier    *)
(* above the requested one; its timestamp is appended to that tier's       *)
(* pruned window and to no other; and one warning-flagged, non-error       *)
(* notice naming both tiers is appended, right after the prompt, exactly   *)
(* when the admitted tier differs from the requested one.                  *)
(***************************************************************************)
C5_AdmitsOnFirstFreeTier ==
    [][Happened("submit")' =>
          LET a == FirstFree(apiRequestTimestampsRef, modelTier, now)
              added == SubSeq(messages', Len(messages) + 1, Len(messages'))
          IN  a # 0 =>
                /\ Happened("admit")'
                /\ TheEvent("admit")'.tier = TierOrder[a]
                /\ TierIndex(TheEvent("admit")'.tier) >= TierIndex(modelTier)
                /\ \A m \in HostedTiers :
                      apiRequestTimestampsRef'[m] =
                          IF m = TierOrder[a]
                          THEN Append(Recent(apiRequestTimestampsRef[m], now), now)
                          ELSE Recent(apiRequestTimestampsRef[m], now)
                /\ CountIn(added, IsNotice) = IF TierOrder[a] # modelTier THEN 1 ELSE 0
                /\ TierOrder[a] # modelTier =>
                      added[2] = Msg("model", NoticeText(modelTier, TierOrder[a]), FALSE, TRUE)]_vars

\* a request for pro was admitted two tiers down, on flash-lite
C5_Witness ==
    /\ Happened("admit")
    /\ TheEvent("admit").requested = Pro
    /\ TheEvent("admit").tier = FlashLite
    /\ CountIn(messages, IsNotice) = 1

(***************************************************************************)
(* C6. With pro requested and a credential configured, a submission is     *)
(* sent to pro without a notice when fewer than 2 requests went to pro in  *)
(* the 60 seconds before it (so the first two of three submissions within  *)
(* 60 seconds, and any submission more than 60 seconds after the earlier   *)
(* ones), and to flash with exactly one notice when 2 requests went to pro *)
(* and fewer than 10 to flash in those 60 seconds (the third of three).    *)
(***************************************************************************)
C6_ProProFlashThenProAgain ==
    [][(Happened("submit")' /\ modelTier = Pro /\ userApiKey # <<>>) =>
          LET recentPro == Len(Recent(sent[Pro], now))
              recentFlash == Len(Recent(sent[Flash], now))
              added == SubSeq(messages', Len(messages) + 1, Len(messages'))
          IN  /\ recentPro < 2 =>
                    /\ Happened("request")'
                    /\ TheEvent("request")'.model = Pro
                    /\ CountIn(added, IsNotice) = 0
              /\ (recentPro >= 2 /\ recentFlash < 10) =>
                    /\ Happened("request")'
                    /\ TheEvent("request")'.model = Flash
                    /\ CountIn(added, IsNotice) = 1]_vars

\* four prompts for pro: two on pro, the third on flash with the only notice,
\* the fourth, a minute later, on pro again
C6_Witness ==
    /\ CountIn(messages, LAMBDA m : m.role = "user") = 4
    /\ CountIn(messages, IsNotice) = 1
    /\ messages[Len(messages)].role = "user"
    /\ Happened("admit")
    /\ TheEvent("admit").requested = Pro
    /\ TheEvent("admit").tier = Pro
    /\ sent[Flash] # <<>>
    /\ Len(Recent(sent[Pro], now)) = 1

(***************************************************************************)
(* C7. An accepted submission that finds every tier from the requested one *)
(* down at its ceiling appends, after the prompt, exactly one message, the *)
(* error-flagged backpressure message; sends no request and starts no turn *)
(* loop; adds no timestamp to any window; and clears the busy flag.        *)
(***************************************************************************)
C7_SaturationRejects ==
    [][(Happened("submit")' /\ FirstFree(apiRequestTimestampsRef, modelTier, now) = 0) =>
          /\ messages' = messages \o <<Msg("user", TheEvent("submit")'.prompt, FALSE, FALSE),
                                       Msg("model", AllBusyText, TRUE, FALSE)>>
          /\ sent' = sent
          /\ runs' = runs
          /\ ~Happened("request")'
          /\ \A m \in HostedTiers :
                apiRequestTimestampsRef'[m] = Recent(apiRequestTimestampsRef[m], now)
          /\ isLoading' = FALSE]_vars

\* a request for pro was rejected: all three tiers were at their ceilings
C7_Witness ==
    /\ Happened("reject")
    /\ TheEvent("reject").requested = Pro
    /\ ~isLoading
    /\ Len(apiRequestTimestampsRef[FlashLite]) = 15

(***************************************************************************)
(* C8. In any trailing 60 seconds the number of inference requests sent to *)
(* a hosted tier is at most the tier's requests-per-minute ceiling.        *)
(***************************************************************************)
C8_RequestsWithinCeiling ==
    \A i \in 1..3 : Len(Recent(sent[TierOrder[i]], now)) <= Ceiling(i)

(***************************************************************************)
(* C9. Every window the Rate Governor compares with a ceiling holds only   *)
(* timestamps strictly within the 60 seconds before the comparison, and a  *)
(* step changes a window only by removing entries and by appending the     *)
(* admission's timestamp: what remains keeps its value and its order.      *)
(***************************************************************************)
RECURSIVE IsSubsequence(_, _)
IsSubsequence(a, b) ==
    IF a = <<>> THEN TRUE
    ELSE IF b = <<>> THEN FALSE
    ELSE IF Head(a) = Head(b) THEN IsSubsequence(Tail(a), Tail(b))
    ELSE IsSubsequence(a, Tail(b))

EvaluatedWindowsAreRecent ==
    \A k \in Ev("check") :
        \A j \in DOMAIN lastEvent[k].window :
            /\ lastEvent[k].at - lastEvent[k].window[j] < 60000
            /\ lastEvent[k].window[j] <= lastEvent[k].at

C9_WindowsPrunedNeverRewritten ==
    [][/\ EvaluatedWindowsAreRecent'
       /\ \A m \in HostedTiers :
             LET old == apiRequestTimestampsRef[m]
                 new == apiRequestTimestampsRef'[m]
             IN  \/ IsSubsequence(new, old)
                 \/ /\ new # <<>>
                    /\ new[Len(new)] = now
                    /\ IsSubsequence(SubSeq(new, 1, Len(new) - 1), old)]_vars

\* the governor dropped one entry of a window and kept a later, older-than-now one
C9_Witness ==
    \E k \in Ev("prune") : \E m \in HostedTiers :
        /\ Len(lastEvent[k].after[m]) > 0
        /\ Len(lastEvent[k].after[m]) < Len(lastEvent[k].before[m])
        /\ lastEvent[k].after[m][1] < now

(***************************************************************************)
(* C10. Original statement: an accepted submission on a hosted tier while  *)
(* no credential is configured sends no request, leaves exactly its prompt *)
(* as the pending prompt, appends exactly one error-flagged message and    *)
(* clears the busy flag.                                                   *)
(***************************************************************************)
NoCredential == userApiKey = <<>> /\ envApiKey = <<>>

AbortsForMissingCredential ==
    LET added == SubSeq(messages', Len(messages) + 1, Len(messages'))
    IN  /\ sent' = sent
        /\ runs' = runs
        /\ ~Happened("request")'
        /\ lastPromptRef' = TheEvent("submit")'.prompt
        /\ CountIn(added, LAMBDA m : m.isError) = 1
        /\ isLoading' = FALSE

C10_NoCredentialRetainsPrompt ==
    [][(Happened("submit")' /\ NoCredential /\ NoCredential') =>
          AbortsForMissingCredential]_vars

(***************************************************************************)
(* C10. As amended: an accepted submission on a hosted tier that the Rate  *)
(* Governor admits (some tier from the requested one down is below its     *)
(* ceiling), made while no credential is configured, sends no request,     *)
(* leaves exactly its prompt as the pending prompt, appends exactly one    *)
(* error-flagged message, the missing-credential message, and clears the   *)
(* busy flag.                                                              *)
(***************************************************************************)
C10_AdmittedNoCredentialRetainsPrompt ==
    [][(/\ Happened("submit")'
        /\ NoCredential /\ NoCredential'
        /\ FirstFree(apiRequestTimestampsRef, modelTier, now) # 0) =>
          /\ AbortsForMissingCredential
          /\ messages'[Len(messages')] = Msg("model", NoKeyText, TRUE, FALSE)]_vars

\* the second of two different prompts aborted for the missing credential
C10_Witness ==
    /\ Happened("nokey")
    /\ lastPromptRef = <<"b">>
    /\ ~isLoading
    /\ runs = <<>>
    /\ Len(apiRequestTimestampsRef[Flash]) = 2

(***************************************************************************)
(* C11. Saving a non-empty credential while a prompt is pending after an   *)
(* abort for a missing credential, and no turn is in flight, re-submits    *)
(* exactly that prompt exactly once; the re-submitted turn runs with the   *)
(* saved credential, so it sends an inference request and does not abort   *)
(* for a missing credential again; and afterwards no prompt is pending.    *)
(***************************************************************************)
C11_SavedCredentialRunsPendingPrompt ==
    [][(/\ Happened("save")'
        /\ TheEvent("save")'.key # <<>>
        /\ NoCredential
        /\ lastPromptRef # null
        /\ ~isLoading) =>
          /\ Cardinality(Ev("submit")') = 1
          /\ TheEvent("submit")'.prompt = lastPromptRef
          /\ Happened("request")'
          /\ TheEvent("request")'.apiKey = TheEvent("save")'.key
          /\ ~Happened("nokey")'
          /\ lastPromptRef' = null]_vars

(***************************************************************************)
(* C12. A credential saved after a new submission never re-submits an      *)
(* older prompt: the prompt that a save re-submits is the prompt of the    *)
(* most recent user message.                                               *)
(***************************************************************************)
UserMessages == SelectSeq(messages, LAMBDA m : m.role = "user")

C12_SaveNeverResubmitsOlderPrompt ==
    [][(Happened("save")' /\ Happened("submit")') =>
          /\ UserMessages # <<>>
          /\ TheEvent("submit")'.prompt = UserMessages[Len(UserMessages)].text]_vars

(***************************************************************************)
(* C13. At most one turn is in flight at any time: no submission starts a  *)
(* turn loop while the loop of an earlier submission is still suspended.   *)
(***************************************************************************)
C13_AtMostOneTurnInFlight == Len(runs) <= 1

(***************************************************************************)
(* C14. Every inference request of a hosted turn offers exactly the tools  *)
(* of the conversation state at that step: search_logs, find_log_patterns, *)
(* update_filters, scroll_to_log and suggest_solution in IDLE, and         *)
(* trace_error_origin, suggest_solution, scroll_to_log and search_logs in  *)
(* ANALYZING; a request that follows, in the same turn, a search_logs      *)
(* result with examples offers the ANALYZING set.                          *)
(***************************************************************************)
ToolSet(tools) == {tools[k] : k \in DOMAIN tools}

IdleTools ==
    {"search_logs", "find_log_patterns", "update_filters", "scroll_to_log", "suggest_solution"}

AnalyzingTools == {"trace_error_origin", "suggest_solution", "scroll_to_log", "search_logs"}

C14_OfferedToolsFollowState ==
    \A k \in Ev("request") :
        /\ lastEvent[k].state = conversationStateRef
        /\ Len(lastEvent[k].tools) = Cardinality(ToolSet(lastEvent[k].tools))
        /\ ToolSet(lastEvent[k].tools) =
               IF conversationStateRef = "ANALYZING" THEN AnalyzingTools ELSE IdleTools
        /\ SearchFound => ToolSet(lastEvent[k].tools) = AnalyzingTools

\* the request after a search_logs result with examples offered the narrower set
C14_Witness ==
    /\ SearchFound
    /\ Happened("request")
    /\ ToolSet(TheEvent("request").tools) = AnalyzingTools
    /\ TheEvent("request").turn = 2

(***************************************************************************)
(* The provider-facing history of the only turn in flight, before and      *)
(* after a step of its loop (after the step the turn may have ended by     *)
(* exhausting its steps).                                                  *)
(***************************************************************************)
HistoryBefore == runs[1].history

HistoryAfter ==
    IF runs' # <<>> THEN runs'[1].history ELSE TheEvent("exhausted")'.history

(***************************************************************************)
(* C15. A step whose answer proposes tool calls executes exactly one tool, *)
(* the first one proposed: the history gains the first call and, once the  *)
(* tool has returned, its result, and nothing of the other calls.          *)
(***************************************************************************)
C15_OnlyFirstCallExecuted ==
    [][\A k \in Ev("proposed")' :
          ~Happened("threw")' =>
              LET first == lastEvent'[k].calls[1]
              IN  /\ Cardinality(Ev("tool")' \cup Ev("nested")') = 1
                  /\ Happened("tool")' =>
                        /\ TheEvent("tool")'.name = first.name
                        /\ HistoryAfter =
                               HistoryBefore \o
                                   <<CallEntry(first),
                                     ResponseEntry(first.name, TheEvent("tool")'.result)>>
                  /\ Happened("nested")' =>
                        /\ first.name = "suggest_solution"
                        /\ HistoryAfter = Append(HistoryBefore, CallEntry(first))]_vars

\* of the two calls proposed, search_logs and update_filters, only search_logs ran
C15_Witness ==
    /\ Happened("proposed")
    /\ Len(TheEvent("proposed").calls) = 2
    /\ TheEvent("proposed").calls[2].name = "update_filters"
    /\ Cardinality(Ev("tool")) = 1
    /\ TheEvent("tool").name = "search_logs"

(***************************************************************************)
(* C16. A tool result that reports a failure (an unknown tool name, a      *)
(* trace_error_origin target that does not exist, a failed nested          *)
(* inference of suggest_solution) does not abort the turn: the result is   *)
(* appended to the history right after its call, no message is appended,   *)
(* and the loop goes on to its next inference request with the busy flag   *)
(* set (after the tenth step there is no next request: the turn ends by    *)
(* exhaustion, as after any tenth tool call).                              *)
(***************************************************************************)
ReportsFailure(result) ==
    \/ "error" \in DOMAIN result
    \/ "summary" \in DOMAIN result /\ result.summary.text = "Log ID not found."
    \/ "solution" \in DOMAIN result /\ result.solution = SolveErrorText

C17_ToolExecutionNeverRaises ==
    [][Happened("proposed")' =>
          /\ ~Happened("threw")'
          /\ Happened("tool")' \/ Happened("nested")'
          /\ runs' = <<>> => ~isLoading']_vars

(***************************************************************************)
(* C18. A provider error in an inference step ends the turn: the step      *)
(* appends exactly one message, error-flagged, the wait-time message when  *)
(* the error carries a retry delay and the generic message otherwise; it   *)
(* sends no request (the failed step is not retried) and executes no tool; *)
(* the turn is over and the busy flag is cleared.                          *)
(***************************************************************************)
C18_ProviderErrorEndsTurn ==
    [][\A k \in Ev("error")' :
          /\ messages' = Append(messages,
                                Msg("model",
                                    IF lastEvent'[k].retry
                                    THEN <<"Rate limit exceeded. Please try again in about N seconds.">>
                                    ELSE <<"An error occurred: ">>,
                                    TRUE, FALSE))
          /\ ~Happened("request")'
          /\ ~Happened("tool")'
          /\ ~Happened("nested")'
          /\ sent' = sent
          /\ Len(runs') = Len(runs) - 1
          /\ isLoading' = FALSE]_vars

\* the second step of a turn failed with a retry delay, after a tool had run
C18_Witness ==
    /\ Happened("error")
    /\ TheEvent("error").retry
    /\ TheEvent("error").turn = 2
    /\ messages[Len(messages)].isError
    /\ ~isLoading
    /\ runs = <<>>

(***************************************************************************)
(* C19. Original statement: the message list is append-only: after every   *)
(* operation, Reset Chat included, the list as it was before the operation *)
(* is a prefix of the list after it.                                       *)
(***************************************************************************)
IsPrefix(a, b) == Len(a) <= Len(b) /\ SubSeq(b, 1, Len(a)) = a

HoldsWelcome(h) == \E k \in DOMAIN h : h[k].kind = "text" /\ h[k].text = WelcomeText

C20_WelcomeFirstAndNeverSent ==
    /\ messages # <<>>
    /\ messages[1] = [role |-> "model", text |-> WelcomeText, isError |-> FALSE,
                      isWarning |-> FALSE]
    /\ \A i \in DOMAIN runs : ~HoldsWelcome(runs[i].history)
    /\ \A k \in DOMAIN lastEvent :
          "history" \in DOMAIN lastEvent[k] => ~HoldsWelcome(lastEvent[k].history)

\* a turn started whose history holds the earlier prompt and its answer between the
\* system prompt and the new prompt
C20_Witness ==
    /\ Happened("request")
    /\ TheEvent("request").turn = 1
    /\ Len(runs) = 1
    /\ Len(runs[1].history) = 4
    /\ runs[1].history[2] = TextEntry("user", Prompt1)
    /\ runs[1].history[3] = TextEntry("model", Answer)

(***************************************************************************)
(* The on-device sessions as the claims state them.                        *)
(***************************************************************************)
LiveSessions == {k \in DOMAIN sessions : sessions[k] = "live"}

(***************************************************************************)
(* C21. At most one on-device session is live at any time: no interleaving *)
(* of on-device submissions leaves two sessions created and not destroyed. *)
(***************************************************************************)
C21_AtMostOneLiveSession == Cardinality(LiveSessions) <= 1

(***************************************************************************)
(* C22. After the conversation surface is torn down, and once no turn and  *)
(* no timer is pending any more, no on-device session is live: every       *)
(* session that was created has been destroyed.                            *)
(***************************************************************************)
C22_NoLiveSessionAfterTeardown ==
    (~mounted /\ runs = <<>> /\ timers = <<>>) => LiveSessions = {}

(***************************************************************************)
(* C23. A submission on the on-device tier bypasses the Rate Governor and  *)
(* the Tool Registry: it is handed to the on-device backend, leaves every  *)
(* rate window as it was (nothing pruned, no timestamp added), sends no    *)
(* hosted request, is not rejected for saturation, offers no tool          *)
(* declarations, and leaves the conversation state IDLE; and the steps of  *)
(* the on-device turn execute no tool and change neither the windows nor   *)
(* the conversation state.                                                 *)
(***************************************************************************)
GovernorOrToolEvents ==
    {"prune", "check", "admit", "reject", "nokey", "request", "proposed", "tool", "nested"}

OnDeviceStep ==
    \E k \in DOMAIN lastEvent :
        lastEvent[k].e \in {"create", "created", "devicePrompt", "deviceAnswer",
                            "deviceError", "deviceMissing"}

C23_OnDeviceBypassesGovernorAndTools ==
    [][/\ (modelTier = ChromeBuiltIn /\ Happened("submit")') =>
            /\ OnDeviceStep'
            /\ conversationStateRef' = "IDLE"
       /\ OnDeviceStep' =>
            /\ apiRequestTimestampsRef' = apiRequestTimestampsRef
            /\ sent' = sent
            /\ \A k \in DOMAIN lastEvent' : lastEvent'[k].e \notin GovernorOrToolEvents
            /\ \A i \in DOMAIN runs' :
                   runs'[i].model = ChromeBuiltIn => runs'[i].tools = <<>>
            /\ Happened("submit")' \/ conversationStateRef' = conversationStateRef]_vars

\* an on-device submission made a minute after a hosted one: the hosted window still
\* holds the timestamp that a hosted submission would have pruned
C23_Witness ==
    /\ Happened("submit") /\ Happened("create")
    /\ modelTier = ChromeBuiltIn
    /\ now = OneMinute
    /\ apiRequestTimestampsRef[Flash] = <<0>>
    /\ isLoading
    /\ conversationStateRef = "IDLE"

(***************************************************************************)
(* C24. For the in-browser runtime a submitted prompt is resolved: while   *)
(* the busy flag is set for a prompt submitted on the in-browser tier and  *)
(* no turn is running, the runtime is loaded or the consent request is     *)
(* shown with the prompt pending, to be replayed on consent and discarded, *)
(* with an explanatory message and the busy flag cleared, on refusal.      *)
(***************************************************************************)
C24_InBrowserPromptResolved ==
    (isLoading /\ modelTier = WebLlm /\ runs = <<>>) =>
        \/ mlcEngine # 0
        \/ showWebLlmConsent /\ pendingPrompt # null

(***************************************************************************)
(* C25. Tool calls and tool results are never appended to the message      *)
(* list: a step that receives a tool call or executes a tool leaves the    *)
(* message list as it was and records the call and the result in the       *)
(* turn's provider-facing history only; and every message a step of a      *)
(* hosted turn appends is the user prompt of the submission, a             *)
(* warning-flagged notice, an error-flagged message or the final answer.   *)
(***************************************************************************)
C25_ToolTrafficNotInMessages ==
    [][/\ (Happened("proposed")' \/ Happened("tool")') => messages' = messages
       /\ \A k \in Ev("tool")' :
              LET h == HistoryAfter
              IN  /\ h[Len(h)] = ResponseEntry(lastEvent'[k].name, lastEvent'[k].result)
                  /\ h[Len(h) - 1].kind = "functionCall"
       /\ IsPrefix(messages, messages')
       /\ \A k \in (Len(messages) + 1)..Len(messages') :
              LET m == messages'[k]
              IN  \/ /\ m.role = "user" /\ ~m.isError /\ ~m.isWarning
                     /\ Happened("submit")' /\ m.text = TheEvent("submit")'.prompt
                  \/ m.role = "model" /\ m.isWarning /\ ~m.isError
                  \/ m.role = "model" /\ m.isError
                  \/ /\ m.role = "model" /\ ~m.isError /\ ~m.isWarning
                     /\ Happened("final")' /\ m.text = TheEvent("final")'.text]_vars

\* a tool was executed with success and its result went to the history alone
C25_Witness ==
    /\ Happened("tool")
    /\ TheEvent("tool").name = "search_logs"
    /\ hasExamples(TheEvent("tool").result)
    /\ Len(runs) = 1
    /\ CountKind(runs[1].history, "functionResponse") = 1
    /\ \A k \in DOMAIN messages : k > 1 => messages[k].role = "user" \/ messages[k].isWarning

(***************************************************************************)
(* The tool engine as the claims state it: the positions of the corpus a   *)
(* tool is to report, and how they are to be reported.                     *)
(***************************************************************************)
\* the property of the given call, or the default when the call does not give it
Given(name, default) ==
    IF name \in DOMAIN givenCall.args THEN givenCall.args[name] ELSE default

Min(a, b) == IF a < b THEN a ELSE b

\* the k-th smallest of a set of numbers, its n smallest and its n largest
Kth(S, k) == CHOOSE i \in S : Cardinality({j \in S : j <= i}) = k
FirstOf(S, n) == {i \in S : Cardinality({j \in S : j <= i}) <= n}
LastOf(S, n) == {i \in S : Cardinality({j \in S : j >= i}) <= n}

IdsInOrder(S) == [k \in 1..Cardinality(S) |-> corpus[Kth(S, k)].id]

Histogram(S) ==
    [lv \in {corpus[i].level : i \in S} |-> Cardinality({i \in S : corpus[i].level = lv})]

RECURSIVE SumOver(_, _)
SumOver(f, S) ==
    IF S = {} THEN 0
    ELSE LET x == CHOOSE y \in S : TRUE IN f[x] + SumOver(f, S \ {x})

Fold(c) ==
    CASE c = "A" -> "a" [] c = "B" -> "b" [] c = "C" -> "c" [] c = "D" -> "d"
      [] c = "E" -> "e" [] c = "F" -> "f" [] c = "T" -> "t" [] c = "Z" -> "z"
      [] OTHER -> c

\* kw occurs in text, letter case disregarded
Contains(text, kw) ==
    \E i \in 0..(Len(text) - Len(kw)) : \A j \in 1..Len(kw) : Fold(text[i + j]) = Fold(kw[j])

Searched(entry) == entry.message \o <<" ">> \o toISOString(entry.timestamp)

\* the positions of the entries that hold every keyword (AND) or some keyword
Matching(mode) ==
    LET kws == Given("keywords", <<>>)
    IN  {i \in DOMAIN corpus :
            IF mode = "AND"
            THEN \A k \in DOMAIN kws : Contains(Searched(corpus[i]), kws[k])
            ELSE \E k \in DOMAIN kws : Contains(Searched(corpus[i]), kws[k])}

\* a search with at least one keyword has been made
Searching == givenCall.name = "search_logs" /\ Given("keywords", <<>>) # <<>>

\* the ids of the results array of the given search, had it been made in the mode
ResultIds(mode) ==
    LET results == searchResults(("match_mode" :> mode) @@ givenCall.args, corpus)
    IN  {results[k].id : k \in DOMAIN results}

SearchMatchesAsStated ==
    Searching =>
        ResultIds(Given("match_mode", "OR")) =
            {corpus[i].id : i \in FirstOf(Matching(Given("match_mode", "OR")),
                                          Given("limit", 100))}

(***************************************************************************)
(* C26. Original statement: search_logs matches keywords                   *)
(* case-insensitively as substrings of the message plus the formatted      *)
(* timestamp, in OR mode the entries that hold any keyword and in AND mode *)
(* those that hold every keyword; and for every corpus and keyword list    *)
(* the set of entries returned in AND mode is a subset of the set returned *)
(* in OR mode.                                                             *)
(***************************************************************************)
C26_AndSubsetOfOr ==
    /\ SearchMatchesAsStated
    /\ Searching => ResultIds("AND") \subseteq ResultIds("OR")

(***************************************************************************)
(* C26. As amended: search_logs matches as stated, and its results are the *)
(* first limit (by default 100) matching entries in corpus order; the set  *)
(* of entries returned in AND mode is a subset of the set returned in OR   *)
(* mode whenever the entries matching in OR mode are no more than the      *)
(* limit.                                                                  *)
(***************************************************************************)
C26_AndSubsetOfOrWithinLimit ==
    /\ SearchMatchesAsStated
    /\ (Searching /\ Cardinality(Matching("OR")) <= Given("limit", 100)) =>
           ResultIds("AND") \subseteq ResultIds("OR")

\* an AND search of two keywords returned some, not all, of what OR returns
C26_Witness ==
    /\ Searching
    /\ Given("match_mode", "OR") = "AND"
    /\ Len(Given("keywords", <<>>)) = 2
    /\ Cardinality(Matching("OR")) <= Given("limit", 100)
    /\ ResultIds("AND") # {}
    /\ ResultIds("AND") # ResultIds("OR")
    /\ returned.summary.count = Cardinality(ResultIds("AND"))

(***************************************************************************)
(* C27. search_logs returns as result count the smaller of the number of   *)
(* matches and the limit (by default 100), a histogram by level whose      *)
(* counts sum to the result count, and as example identifiers those of the *)
(* first 3 results, or of all when they are fewer, in corpus order; with   *)
(* no result, or with no keyword, it returns a summary alone, without      *)
(* example identifiers and without an error, which leaves the conversation *)
(* state as it was.                                                        *)
(***************************************************************************)
C27_SearchResultShape ==
    givenCall.name = "search_logs" =>
        LET mode == Given("match_mode", "OR")
            n == Min(Cardinality(Matching(mode)), Given("limit", 100))
            R == FirstOf(Matching(mode), n)
        IN  IF Given("keywords", <<>>) = <<>>
            THEN /\ returned = [summary |-> [text |-> "No keywords provided."]]
                 /\ ~hasExamples(returned)
            ELSE IF n = 0
            THEN /\ returned = [summary |-> [text |-> "Found 0 logs matching the criteria."]]
                 /\ ~hasExamples(returned)
            ELSE /\ DOMAIN returned = {"summary", "example_log_ids"}
                 /\ returned.summary.count = n
                 /\ returned.summary.levels = Histogram(R)
                 /\ SumOver(returned.summary.levels, DOMAIN returned.summary.levels) = n
                 /\ returned.example_log_ids = IdsInOrder(FirstOf(R, 3))

\* more entries match than the default limit allows
C27_Witness ==
    /\ givenCall.name = "search_logs"
    /\ "limit" \notin DOMAIN givenCall.args
    /\ Cardinality(Matching(Given("match_mode", "OR"))) = 101
    /\ hasExamples(returned)
    /\ returned.summary.count = 100
    /\ returned.example_log_ids = <<10, 20, 30>>

(***************************************************************************)
(* find_log_patterns as the claims state it.                               *)
(***************************************************************************)
PatternsOf(type) ==
    givenCall.name = "find_log_patterns" /\ Given("pattern_type", "") = type

\* the positions find_log_patterns looks at: all, or those of the window given
Considered ==
    LET w == Given("time_window_minutes", 0)
    IN  {i \in DOMAIN corpus :
            \/ w = 0
            \/ /\ corpus[i].timestamp >= corpus[Len(corpus)].timestamp - w * 60000
               /\ corpus[i].timestamp <= corpus[Len(corpus)].timestamp}

Severe == {i \in Considered : corpus[i].level \in {"ERROR", "CRITICAL"}}

Numeral(c) == c \in {"0", "1", "2", "3", "4", "5", "6", "7", "8", "9"}

\* the positions of t that are no numeral or the first numeral of a run
RunStarts(t) == {i \in DOMAIN t : ~Numeral(t[i]) \/ i = 1 \/ ~Numeral(t[i - 1])}

\* t with every maximal run of numerals replaced by one N
Normal(t) ==
    [k \in 1..Cardinality(RunStarts(t)) |->
        LET i == Kth(RunStarts(t), k) IN IF Numeral(t[i]) THEN "N" ELSE t[i]]

Groups == {Normal(corpus[i].message) : i \in Severe}
Members(g) == {i \in Severe : Normal(corpus[i].message) = g}

\* group g ranks before group h: it is larger or, when of equal size, seen first
RanksBefore(g, h) ==
    \/ Cardinality(Members(g)) > Cardinality(Members(h))
    \/ /\ Cardinality(Members(g)) = Cardinality(Members(h))
       /\ Kth(Members(g), 1) < Kth(Members(h), 1)

(***************************************************************************)
(* C28. find_log_patterns(repeating_error) looks at ERROR and CRITICAL     *)
(* entries only, replaces every maximal run of digits of the message by    *)
(* one placeholder, groups the entries by the text so normalized, and      *)
(* returns the 5 first groups (all when they are fewer) in descending      *)
(* order of count, groups of equal count in the order of their first       *)
(* occurrence, each with its count and the identifier of its first         *)
(* occurrence; on the corpus of three ERROR 'disk N full', one ERROR       *)
(* 'disk 7 full' and one INFO 'ok' it returns one pattern, of count 4.     *)
(***************************************************************************)
C28_RepeatingErrorPatterns ==
    PatternsOf("repeating_error") =>
        IF Groups = {}
        THEN returned = [summary |-> [text |-> "No repeating error patterns found."]]
        ELSE LET top == returned.top_patterns
                 shown == {top[k].message_pattern : k \in DOMAIN top}
             IN  /\ Len(top) = Min(5, Cardinality(Groups))
                 /\ \A k \in DOMAIN top :
                        /\ top[k].message_pattern \in Groups
                        /\ top[k].count = Cardinality(Members(top[k].message_pattern))
                        /\ top[k].example_log_id =
                               corpus[Kth(Members(top[k].message_pattern), 1)].id
                 /\ \A k, l \in DOMAIN top :
                        k < l => RanksBefore(top[k].message_pattern, top[l].message_pattern)
                 /\ \A g \in Groups \ shown :
                        \A k \in DOMAIN top : RanksBefore(top[k].message_pattern, g)
                 /\ returned.summary.count = Len(top)
                 /\ returned.summary.most = top[1].count
                 /\ (corpus = DiskCorpus /\ Considered = DOMAIN corpus) =>
                        Len(top) = 1 /\ top[1].count = 4

\* the minutes that hold an entry looked at, and the number of entries of a minute
Minutes == {corpus[i].timestamp \div 60000 : i \in Considered}
InMinute(b) == Cardinality({i \in Considered : corpus[i].timestamp \div 60000 = b})

\* the count of minute b is above the mean plus twice the population standard
\* deviation of the counts: with n minutes, S entries and Q the sum of the squared
\* counts, the mean is S / n and the variance Q / n - (S / n) * (S / n)
AboveTwoDeviations(b) ==
    LET n == Cardinality(Minutes)
        S == Cardinality(Considered)
        Q == SumOver([m \in Minutes |-> InMinute(m) * InMinute(m)], Minutes)
        d == n * InMinute(b) - S
    IN  d > 0 /\ d * d > 4 * (n * Q - S * S)

(***************************************************************************)
(* C29. find_log_patterns(frequency_spike) counts the entries of every     *)
(* 60-second window that holds one and reports exactly the windows whose   *)
(* count is strictly greater than the mean plus twice the population       *)
(* standard deviation of these counts, each with its start time and its    *)
(* count; with fewer than 2 windows it returns a 'not enough data'         *)
(* summary; on ten windows of 1 entry and one window of 20 entries it      *)
(* reports the window of 20 alone.                                         *)
(***************************************************************************)
C29_SpikesAboveTwoDeviations ==
    PatternsOf("frequency_spike") =>
        LET high == {b \in Minutes : AboveTwoDeviations(b)}
        IN  /\ IF Cardinality(Minutes) < 2
               THEN returned = [summary |-> [text |-> "Not enough data to detect spikes."]]
               ELSE IF high = {}
               THEN returned =
                        [summary |-> [text |-> "No significant spikes in log frequency detected."]]
               ELSE /\ Len(returned.spikes) = Cardinality(high)
                    /\ {returned.spikes[j] : j \in DOMAIN returned.spikes} =
                           {[timestamp |-> toISOString(b * 60000), count |-> InMinute(b)] :
                               b \in high}
                    /\ returned.summary.count = Cardinality(high)
                    /\ \E b \in high :
                           /\ returned.summary.largest = InMinute(b)
                           /\ \A c \in high : InMinute(c) <= InMinute(b)
            /\ (corpus = FromCounts(TenOnesAndTwenty) /\ Considered = DOMAIN corpus) =>
                   /\ Len(returned.spikes) = 1
                   /\ returned.spikes[1].count = 20

(***************************************************************************)
(* C30. trace_error_origin returns a not-found summary, without example    *)
(* identifiers, when no entry has the identifier given; otherwise it       *)
(* counts exactly the entries whose time t satisfies                       *)
(* target.time - window <= t <= target.time (the window by default 60      *)
(* seconds), with a histogram by level that sums to that count and, as     *)
(* example identifiers, those of the last 5 of these entries (of all when  *)
(* they are fewer) in corpus order.                                        *)
(***************************************************************************)
C30_TraceWindow ==
    givenCall.name = "trace_error_origin" =>
        LET targets == {i \in DOMAIN corpus : corpus[i].id = givenCall.args["error_log_id"]}
            window == Given("trace_window_seconds", 60)
        IN  IF targets = {}
            THEN /\ DOMAIN returned = {"summary"}
                 /\ returned.summary.text = "Log ID not found."
                 /\ ~hasExamples(returned)
            ELSE LET t == corpus[Kth(targets, 1)].timestamp
                     W == {i \in DOMAIN corpus :
                              /\ t - window * 1000 <= corpus[i].timestamp
                              /\ corpus[i].timestamp <= t}
                 IN  /\ returned.summary.count = Cardinality(W)
                     /\ returned.summary.levels = Histogram(W)
                     /\ SumOver(returned.summary.levels, DOMAIN returned.summary.levels) =
                            Cardinality(W)
                     /\ returned.example_log_ids = IdsInOrder(LastOf(W, 5))

\* seven entries lie in the window of the last one; the last five are the examples
C30_Witness ==
    /\ givenCall.name = "trace_error_origin"
    /\ givenCall.args["error_log_id"] = 70
    /\ "trace_window_seconds" \notin DOMAIN givenCall.args
    /\ hasExamples(returned)
    /\ returned.summary.count = 7
    /\ returned.example_log_ids = <<30, 40, 50, 60, 70>>

(***************************************************************************)
(* C31. Every tool executed in a loop iteration belongs to the tool set    *)
(* that was offered to the provider for that step: a proposed call that    *)
(* names a tool outside the tools available in the current state is not    *)
(* executed (and so has no filter or navigation effect).                   *)
(***************************************************************************)
C31_ExecutedToolsWereOffered ==
    [][\A k \in Ev("tool")' :
          \E i \in DOMAIN runs :
              /\ runs[i].pc \in {"infer", "suggest"}
              /\ lastEvent'[k].name \in ToolSet(runs[i].tools)]_vars

(***************************************************************************)
(* C32. Every accepted submission eventually completes: whenever the busy  *)
(* flag is set, it is eventually cleared, on the hosted, the on-device and *)
(* the in-browser tier, under providers whose every response arrives.      *)
(***************************************************************************)
C32_BusyFlagEventuallyCleared == isLoading ~> ~isLoading

\* the same for the turns that do suspend on a provider: hosted and on-device
C32_SuspendedTurnsComplete == (isLoading /\ runs # <<>>) ~> ~isLoading

(***************************************************************************)
(* C33. Within a hosted turn the provider-facing history grows in causal   *)
(* order.  Whenever an inference step is pending, the history it was given *)
(* starts with the system prompt, holds one user entry for each earlier    *)
(* prompt and one, the last, for the current prompt, followed only by      *)
(* tool calls and tool results: one call and one result for each earlier   *)
(* step of the turn, every call immediately followed by the result of that *)
(* same call, which is the result the tool returned when it was executed.  *)
(* From one step of the turn to the next the history is only extended.     *)
(***************************************************************************)
UserEntries(h) == {k \in DOMAIN h : h[k].kind = "text" /\ h[k].role = "user"}

IsResultOf(entry, call) == entry.kind = "functionResponse" /\ entry.name = call.name

HistoryInCausalOrder(r) ==
    \E h \in {r.history} : \E p \in {Last(UserEntries(h) \cup {1})} :
        /\ h[1] = TextEntry("system", SystemPrompt)
        /\ UserEntries(h) # {}
        /\ h[p] = TextEntry("user", r.prompt)
        /\ Len(h) = p + 2 * (r.turn - 1)
        /\ \A k \in (p + 1)..Len(h) :
              IF (k - p) % 2 = 1
              THEN h[k].kind = "functionCall" /\ k < Len(h)
                   /\ IsResultOf(h[k + 1], h[k].call)
              ELSE h[k].kind = "functionResponse"

PendingHistoriesInOrder ==
    \A i \in DOMAIN runs : runs[i].pc = "infer" => HistoryInCausalOrder(runs[i])

\* the result a step appends is the one the tool executed in that step returned
AppendsResultOfExecutedTool ==
    (Happened("tool")' /\ runs' # <<>>) =>
        Last(DOMAIN runs'[1].history) \in
            {k \in DOMAIN runs'[1].history :
                runs'[1].history[k] =
                    ResponseEntry(TheEvent("tool")'.name, TheEvent("tool")'.result)}

\* a new turn's history holds the earlier prompts and the current prompt once more
EntersPromptOnce ==
    (runs = <<>> /\ runs' # <<>> /\ runs'[1].pc = "infer") =>
        Cardinality(UserEntries(runs'[1].history)) = Len(UserMessages) + 1

C33_HistoryGrowsInCausalOrder ==
    [][/\ PendingHistoriesInOrder'
       /\ EntersPromptOnce
       /\ AppendsResultOfExecutedTool
       /\ (runs # <<>> /\ runs' # <<>>) => IsPrefix(runs[1].history, runs'[1].history)]_vars

\* the third step of a turn is pending after a search and a suggested solution
C33_Witness ==
    /\ Len(runs) = 1
    /\ runs[1].pc = "infer"
    /\ runs[1].turn = 3
    /\ LET h == runs[1].history
       IN  /\ h[Len(h) - 3] = CallEntry(SearchHit)
           /\ h[Len(h) - 1] = CallEntry(SuggestSolution)

(***************************************************************************)
(* C34. The rate window of a hosted tier never holds more entries than the *)
(* tier's requests-per-minute ceiling (pro 2, flash 10, flash-lite 15),    *)
(* whatever the submissions, their times and the tiers selected.           *)
(***************************************************************************)
C34_WindowsWithinCeiling ==
    \A i \in DOMAIN TierOrder :
        Len(apiRequestTimestampsRef[TierOrder[i]]) <= Ceiling(i)

\* every window is full and a further submission has been rejected
C34_Witness ==
    /\ \A i \in DOMAIN TierOrder : Len(apiRequestTimestampsRef[TierOrder[i]]) = Ceiling(i)
    /\ Happened("reject")
    /\ TheEvent("reject").requested = Flash

(***************************************************************************)
(* C35. The Rate Governor records the admission before the credential is   *)
(* looked at.  Every admitted submission, the automatic retry after a      *)
(* credential is saved included, puts the time of the submission into the  *)
(* window of the admitted tier, after the entries of the last 60 seconds;   *)
(* when the submission then aborts for a missing credential no inference   *)
(* request is sent; and a window loses only entries that are 60 seconds    *)
(* old or older.  A retry that the governor rejects occupies no slot.       *)
(***************************************************************************)
AdmissionsAreRecorded ==
    \A k \in Ev("admit")' :
        apiRequestTimestampsRef'[lastEvent'[k].tier] =
            Append(Recent(apiRequestTimestampsRef[lastEvent'[k].tier], now), now)

AbortSendsNothing == Happened("nokey")' => (sent' = sent /\ ~Happened("request")')

SlotsLastAMinute ==
    \A m \in HostedTiers :
        IsSubsequence(Recent(apiRequestTimestampsRef[m], now'), apiRequestTimestampsRef'[m])

AutomaticRetry == Happened("save") /\ Happened("submit")

C35_AdmissionRecordedBeforeCredentialCheck ==
    [][/\ AdmissionsAreRecorded
       /\ AbortSendsNothing
       /\ SlotsLastAMinute
       /\ (AutomaticRetry' /\ Happened("reject")') =>
              apiRequestTimestampsRef' =
                  [m \in HostedTiers |-> Recent(apiRequestTimestampsRef[m], now)]]_vars

(* C35 as stated: every automatic retry occupies a further slot.            *)
C35_RetryOccupiesFurtherSlot ==
    [][AutomaticRetry' =>
          \E m \in HostedTiers :
              Len(apiRequestTimestampsRef'[m]) =
                  Len(Recent(apiRequestTimestampsRef[m], now)) + 1]_vars

\* the retry of an aborted submission was admitted and aborted as well: two slots of
\* the window are taken and no request has been sent
C35_Witness ==
    /\ AutomaticRetry
    /\ Happened("admit")
    /\ Happened("nokey")
    /\ apiRequestTimestampsRef[Flash] = <<now, now>>
    /\ \A m \in HostedTiers : sent[m] = <<>>

(***************************************************************************)
(* C36. A failure of on-device session creation or of an on-device prompt  *)
(* ends the turn with exactly one message more, error-flagged, and the     *)
(* busy flag cleared; it clears the session handle and leaves no session   *)
(* live; an on-device submission that finds the handle cleared creates a   *)
(* session that did not exist before; and only live sessions are prompted. *)
(***************************************************************************)
FailureEndsTurn ==
    Happened("deviceError")' =>
        /\ Len(messages') = Len(messages) + 1
        /\ IsPrefix(messages, messages')
        /\ messages'[Len(messages')].isError
        /\ ~isLoading'
        /\ chromeAiSession' = 0
        /\ chromeAiSession # 0 => sessions'[chromeAiSession] = "destroyed"

NoSessionSurvivesFailure == Happened("deviceError")' => LiveSessions' = {}

FreshSessionOnDemand ==
    /\ (Happened("submit")' /\ OnDeviceStep' /\ chromeAiSession = 0) => Happened("create")'
    /\ Happened("created")' =>
          /\ TheEvent("created")'.session \notin DOMAIN sessions
          /\ sessions'[TheEvent("created")'.session] = "live"

OnlyLiveSessionsPrompted ==
    \A k \in Ev("devicePrompt")' : sessions'[lastEvent'[k].session] = "live"

C36_FailureDestroysSessions ==
    [][/\ FailureEndsTurn
       /\ NoSessionSurvivesFailure
       /\ FreshSessionOnDemand
       /\ OnlyLiveSessionsPrompted]_vars

\* the same without the sessions that no handle refers to
C36_FailureDestroysSessionInHandle ==
    [][FailureEndsTurn /\ FreshSessionOnDemand /\ OnlyLiveSessionsPrompted]_vars

(***************************************************************************)
(* C37. A submission whose prompt is empty or only whitespace, or that is  *)
(* made while the busy flag is set, is a no-op: no submission is accepted  *)
(* while the busy flag is set, every accepted prompt holds a character     *)
(* that is not a blank, and a submission that is not accepted leaves the   *)
(* message list, the busy flag, the conversation state, the rate windows   *)
(* and the pending prompt as they were and invokes no provider.            *)
(***************************************************************************)
NoSubmissionWhileBusy == isLoading => ~Happened("submit")'

AcceptedPromptsHaveText ==
    \A k \in Ev("submit")' :
        \E j \in DOMAIN lastEvent'[k].prompt : lastEvent'[k].prompt[j] # " "

IgnoredSubmissionChangesNothing ==
    (Happened("ignored")' /\ ~Happened("save")') =>
        UNCHANGED <<messages, isLoading, conversationStateRef, apiRequestTimestampsRef,
                    lastPromptRef, sent, runs, chromeAiSession, sessions>>

C37_RefusedSubmissionIsNoOp ==
    [][/\ NoSubmissionWhileBusy
       /\ AcceptedPromptsHaveText
       /\ IgnoredSubmissionChangesNothing]_vars

\* the same for the submissions that the guard of handleSubmit does refuse
C37_IgnoredSubmissionIsNoOp ==
    [][AcceptedPromptsHaveText /\ IgnoredSubmissionChangesNothing]_vars

TypeOK ==
    /\ isLoading \in BOOLEAN
    /\ mounted \in BOOLEAN
    /\ showWebLlmConsent \in BOOLEAN
    /\ mlcEngine = 0
    /\ conversationStateRef \in {"IDLE", "ANALYZING"}
    /\ modelTier \in HostedTiers \cup {ChromeBuiltIn, WebLlm}
    /\ chromeAiSession \in 0..Len(sessions)
    /\ \A i \in DOMAIN runs : runs[i].pc \in {"infer", "suggest", "create", "prompt"} /\ runs[i].turn \in 1..MAX_TURNS

====
